---- MODULE Spec2Model ----
(***************************************************************************)
(* TIMPANI: orchestrator (timpani-o) scheduling, plan distribution and     *)
(* start barrier, and the node (timpani-n) side that fetches the plan and  *)
(* arms its timers.                                                        *)
(*                                                                         *)
(* Strings are sequences of byte values, integers are mathematical         *)
(* integers kept inside the range of the C type that holds them.           *)
(* Utilisations (runtime_us / period_us, a double in the source) are kept  *)
(* as exact multiples of 1/UTIL_SCALE; the task parameters of the model    *)
(* are chosen so that every quotient is exact.                             *)
(***************************************************************************)
EXTENDS Integers, Sequences, FiniteSets, TLC

VARIABLES
    tasks_,                     \* GlobalScheduler::tasks_
    cpu_utilization_per_node_,  \* GlobalScheduler::cpu_utilization_per_node_
    sched_info_map_,            \* SchedInfoServiceImpl::sched_info_map_
    sched_info_changed_,        \* SchedInfoServiceImpl::sched_info_changed_
    hyperperiod_map_,           \* HyperperiodManager::hyperperiod_map_
    sched_info_buf_,            \* DBusServer::sched_info_buf_
    node_sync_map_,             \* DBusServer::node_sync_map_
    sync_callers,               \* names logged by SyncCallback since the map was created
    acked_ts,                   \* the latest timestamp handed out with ack=1
    clock,                      \* last CLOCK_REALTIME reading
    rpc,                        \* the last request handled and its reply
    node,                       \* per node process: struct context
    codec,                      \* a serial_buf_t and the fields written to it
    ctx_runtime,                \* a node once its timers run: hp_manager, tt_list, threads
    threads                     \* the threads of the orchestrator and what they share

vars == <<tasks_, cpu_utilization_per_node_, sched_info_map_, sched_info_changed_,
          hyperperiod_map_, sched_info_buf_, node_sync_map_, sync_callers,
          acked_ts, clock, rpc, node, codec, ctx_runtime, threads>>

\* the variables the server and the start-up of the nodes leave alone
ext == <<codec, ctx_runtime, threads>>

\* the variables of the server and of the start-up of the nodes
sys == <<tasks_, cpu_utilization_per_node_, sched_info_map_, sched_info_changed_,
         hyperperiod_map_, sched_info_buf_, node_sync_map_, sync_callers,
         acked_ts, clock, rpc, node>>

MaxFields == 3
MaxFires == 3
MaxCycles == 2

(***************************************************************************)
(* Bounds of the model                                                     *)
(***************************************************************************)
MaxTasks == 3           \* tasks per submitted workload
MaxSec == 1             \* largest tv_sec the wall clock reaches

(***************************************************************************)
(* Strings                                                                 *)
(***************************************************************************)
EmptyStr == << >>
N1 == <<110, 49>>       \* "n1"
N2 == <<110, 50>>       \* "n2"
N9 == <<110, 57>>       \* "n9", not in the node inventory
W1 == <<119, 49>>       \* "w1"
W2 == <<119, 50>>       \* "w2"
Repeat(c, n) == [i \in 1..n |-> c]
WLong == Repeat(119, 64)            \* a 64 byte workload id
TaskName(i) == <<116, 48 + i>>      \* "t1", "t2", ...
LongName(i) == Repeat(97, 15) \o <<48 + i>>   \* 16 bytes
Name15(i) == Repeat(98, 14) \o <<48 + i>>     \* 15 bytes

\* a local variable: value is computed once and In is applied to it
Let(value, In(_)) == CHOOSE out \in {In(x) : x \in {value}} : TRUE

Min(a, b) == IF a < b THEN a ELSE b

\* std::string::substr(0, n)
Substr(s, n) == SubSeq(s, 1, Min(Len(s), n))

\* strncpy(dst, src, sizeof(dst) - 1); dst[sizeof(dst) - 1] = '\0'
Strncpy(s, size) == Substr(s, size - 1)

\* std::less<std::string>: lexicographic order of the bytes
RECURSIVE StrLess(_, _)
StrLess(a, b) ==
    IF b = << >> THEN FALSE
    ELSE IF a = << >> THEN TRUE
    ELSE IF Head(a) # Head(b) THEN Head(a) < Head(b)
    ELSE StrLess(Tail(a), Tail(b))

\* the keys of a std::map in iteration order
RECURSIVE SortedKeys(_)
SortedKeys(S) ==
    IF S = {} THEN << >>
    ELSE LET k == CHOOSE x \in S : \A y \in S \ {x} : StrLess(x, y)
         IN <<k>> \o SortedKeys(S \ {k})

EmptyMap == [k \in {} |-> 0]

\* std::map::begin()->first
MapBegin(m) == SortedKeys(DOMAIN m)[1]

(***************************************************************************)
(* Node inventory (NodeConfigManager::GetAllNodes)                         *)
(***************************************************************************)
NodeInventory == (N1 :> <<0, 1>>) @@ (N2 :> <<0>>)

(***************************************************************************)
(* GlobalScheduler                                                         *)
(***************************************************************************)
UTIL_SCALE == 1000
CPU_UTILIZATION_THRESHOLD == 900        \* 0.90
AFFINITY_ANY == -1                      \* Task::affinity == "any"
SCHED_FIFO == 1
TASK_NAME_SIZE == 64                    \* sizeof(sched_task_t::task_name)
ASSIGNED_NODE_SIZE == 64                \* sizeof(sched_task_t::assigned_node)

\* (double)task.runtime_us / task.period_us, 0.0 for a zero period
TaskUtilization(task) ==
    IF task.period_us > 0 THEN (task.runtime_us * UTIL_SCALE) \div task.period_us ELSE 0

\* GlobalScheduler::initialize_available_cpus
initialize_available_cpus == NodeInventory

\* GlobalScheduler::initialize_cpu_utilization_tracking
initialize_cpu_utilization_tracking(avail) ==
    [n \in DOMAIN avail |->
        [c \in {avail[n][i] : i \in DOMAIN avail[n]} |-> 0]]

\* GlobalScheduler::calculate_cpu_utilization
calculate_cpu_utilization(util, node_id, cpu_id) ==
    IF node_id \notin DOMAIN util THEN 0
    ELSE IF cpu_id \notin DOMAIN util[node_id] THEN 0
    ELSE util[node_id][cpu_id]

SeqToSet(s) == {s[i] : i \in DOMAIN s}

\* a sort that puts the lowest CPU first
RECURSIVE SortDescending_Ascending(_)
SortDescending_Ascending(S) ==
    IF S = {} THEN << >>
    ELSE LET m == CHOOSE x \in S : \A y \in S : x <= y
         IN <<m>> \o SortDescending_Ascending(S \ {m})

\* std::sort(..., std::greater<int>())
RECURSIVE SortDescending(_)
SortDescending(S) ==
    IF S = {} THEN << >>
    ELSE LET m == CHOOSE x \in S : \A y \in S : y <= x
         IN <<m>> \o SortDescending(S \ {m})

\* the first CPU of the list that can take the task, -1 if none
RECURSIVE FirstFit(_, _, _, _)
FirstFit(cpus, util, node_id, task_utilization) ==
    IF cpus = << >> THEN -1
    ELSE IF calculate_cpu_utilization(util, node_id, Head(cpus)) + task_utilization
                <= CPU_UTILIZATION_THRESHOLD
         THEN Head(cpus)
         ELSE FirstFit(Tail(cpus), util, node_id, task_utilization)

\* GlobalScheduler::find_best_cpu_for_task
find_best_cpu_for_task(task, node_id, avail, util) ==
    LET available_cpus == avail[node_id]
        task_utilization == TaskUtilization(task)
        pinned == /\ task.affinity # AFFINITY_ANY
                  /\ task.affinity \in SeqToSet(available_cpus)
                  /\ calculate_cpu_utilization(util, node_id, task.affinity)
                        + task_utilization <= CPU_UTILIZATION_THRESHOLD
    IN  IF available_cpus = << >> THEN -1
        ELSE IF pinned THEN task.affinity
        ELSE FirstFit(SortDescending(SeqToSet(available_cpus)), util, node_id,
                      task_utilization)

\* assign_task_to_node_cpu that records the task's share as the load of the
\* CPU instead of adding it to the load
assign_task_to_node_cpu_NoAccumulate(task, node_id, cpu_id, avail, util) ==
    LET new_cpu_util == calculate_cpu_utilization(util, node_id, cpu_id)
                            + TaskUtilization(task)
    IN  IF cpu_id \notin SeqToSet(avail[node_id])
        THEN [ok |-> FALSE, task |-> task, util |-> util]
        ELSE IF new_cpu_util > CPU_UTILIZATION_THRESHOLD
        THEN [ok |-> FALSE, task |-> task, util |-> util]
        ELSE [ok |-> TRUE,
              task |-> [task EXCEPT !.assigned_cpu = cpu_id],
              util |-> [util EXCEPT ![node_id][cpu_id] = TaskUtilization(task)]]

\* GlobalScheduler::assign_task_to_node_cpu: [ok, task, util]
assign_task_to_node_cpu(task, node_id, cpu_id, avail, util) ==
    LET new_cpu_util == calculate_cpu_utilization(util, node_id, cpu_id)
                            + TaskUtilization(task)
    IN  IF cpu_id \notin SeqToSet(avail[node_id])
        THEN [ok |-> FALSE, task |-> task, util |-> util]
        ELSE IF new_cpu_util > CPU_UTILIZATION_THRESHOLD
        THEN [ok |-> FALSE, task |-> task, util |-> util]
        ELSE [ok |-> TRUE,
              task |-> [task EXCEPT !.assigned_cpu = cpu_id],
              util |-> [util EXCEPT ![node_id][cpu_id] = new_cpu_util]]

\* one iteration of the loop of schedule_with_target_node_priority
ScheduleOneTask(task, avail, util) ==
    IF task.target_node = EmptyStr THEN [task |-> task, util |-> util]
    ELSE IF task.target_node \notin DOMAIN avail THEN [task |-> task, util |-> util]
    ELSE IF avail[task.target_node] = << >> THEN [task |-> task, util |-> util]
    ELSE LET t1 == [task EXCEPT !.assigned_node = task.target_node]
             best_cpu == find_best_cpu_for_task(t1, t1.target_node, avail, util)
         IN  IF best_cpu # -1
             THEN LET r == assign_task_to_node_cpu(t1, t1.target_node, best_cpu, avail, util)
                  IN [task |-> r.task, util |-> r.util]
             ELSE [task |-> t1, util |-> util]

\* GlobalScheduler::schedule_with_target_node_priority: [tasks, util]
RECURSIVE schedule_with_target_node_priority(_, _, _)
schedule_with_target_node_priority(tasks, avail, util) ==
    IF tasks = << >> THEN [tasks |-> << >>, util |-> util]
    ELSE LET r == ScheduleOneTask(Head(tasks), avail, util)
             rest == schedule_with_target_node_priority(Tail(tasks), avail, r.util)
         IN [tasks |-> <<r.task>> \o rest.tasks, util |-> rest.util]


\* GlobalScheduler::schedule("target_node_priority"): [tasks, util]
schedule(tasks) ==
    LET avail == initialize_available_cpus
    IN schedule_with_target_node_priority(tasks, avail, initialize_cpu_utilization_tracking(avail))

\* the sched_task_t that generate_schedules fills for a task; release_time and
\* max_dmiss are not written and keep what the malloc'ed array holds
SchedTask(task, uninit) ==
    [task_name      |-> Strncpy(task.name, TASK_NAME_SIZE),
     period_ns      |-> task.period_us * 1000,
     runtime_ns     |-> task.runtime_us * 1000,
     deadline_ns    |-> task.deadline_us * 1000,
     release_time   |-> uninit,
     cpu_affinity   |-> task.assigned_cpu,
     sched_policy   |-> SCHED_FIFO,
     sched_priority |-> task.priority,
     max_dmiss      |-> uninit,
     assigned_node  |-> Strncpy(task.assigned_node, ASSIGNED_NODE_SIZE)]

\* the tasks of a node, in the order of tasks_
RECURSIVE NodeTasks(_, _, _, _)
NodeTasks(tasks, node_id, uninit, i) ==
    IF i > Len(tasks) THEN << >>
    ELSE IF tasks[i].assigned_node = node_id
         THEN <<SchedTask(tasks[i], uninit)>> \o NodeTasks(tasks, node_id, uninit, i + 1)
         ELSE NodeTasks(tasks, node_id, uninit, i + 1)

\* the nodes generate_schedules allocates a task array for
ScheduledNodes(tasks) == {tasks[i].assigned_node : i \in DOMAIN tasks} \ {EmptyStr}

\* GlobalScheduler::generate_schedules: node id -> tasks of the node; heap[n] is
\* the word that fills the array malloc returned for node n
generate_schedules(tasks, heap) ==
    [node_id \in ScheduledNodes(tasks) |-> NodeTasks(tasks, node_id, heap[node_id], 1)]

\* SchedInfoServiceImpl::ConvertTaskInfoToTasks, one task
RECURSIVE FirstSetBit(_)
FirstSetBit(affinity) == IF affinity > 1 THEN 1 + FirstSetBit(affinity \div 2) ELSE 0

CPU_AFFINITY_ALL == -1      \* 0xFFFFFFFF, the 32 bit pattern read as signed

\* SchedInfoServiceImpl::SchedPolicyToInt
SchedPolicyToInt(policy) ==
    CASE policy = "NORMAL" -> 0
      [] policy = "FIFO" -> 1
      [] policy = "RR" -> 2
      [] OTHER -> -1

ConvertTaskInfoToTask(grpc_task) ==
    [name          |-> grpc_task.name,
     priority      |-> grpc_task.priority,
     policy        |-> SchedPolicyToInt(grpc_task.policy),
     period_us     |-> grpc_task.period,
     runtime_us    |-> grpc_task.runtime,
     deadline_us   |-> grpc_task.deadline,
     release_time  |-> grpc_task.release_time,
     max_dmiss     |-> grpc_task.max_dmiss,
     target_node   |-> grpc_task.node_id,
     affinity      |-> IF grpc_task.cpu_affinity = CPU_AFFINITY_ALL \/ grpc_task.cpu_affinity = 0
                       THEN AFFINITY_ANY
                       ELSE FirstSetBit(grpc_task.cpu_affinity),
     assigned_node |-> EmptyStr,
     assigned_cpu  |-> -1]

ConvertTaskInfoToTasks(request) ==
    [i \in DOMAIN request.tasks |-> ConvertTaskInfoToTask(request.tasks[i])]

(***************************************************************************)
(* HyperperiodManager                                                      *)
(***************************************************************************)
RECURSIVE Gcd(_, _)
Gcd(a, b) == IF b = 0 THEN a ELSE Gcd(b, a % b)

\* an Lcm that takes the larger of the two
Lcm_Largest(a, b) == IF a > b THEN a ELSE b

Lcm(a, b) == IF a = 0 \/ b = 0 THEN 0 ELSE (a \div Gcd(a, b)) * b

RECURSIVE CalculateLcm(_)
CalculateLcm(periods) ==
    IF periods = {} THEN 0
    ELSE LET p == CHOOSE x \in periods : \A y \in periods : x <= y
         IN IF periods = {p} THEN p
            ELSE LET q == CHOOSE x \in periods : \A y \in periods : y <= x
                 IN Lcm(CalculateLcm(periods \ {q}), q)

\* HyperperiodManager::CalculateHyperperiod
CalculateHyperperiod(tasks) ==
    CalculateLcm({tasks[i].period_us : i \in DOMAIN tasks} \ {0})

(***************************************************************************)
(* libtrpc serialization: value first, length last, network byte order     *)
(***************************************************************************)
RECURSIVE Pow256(_)
Pow256(k) == IF k = 0 THEN 1 ELSE 256 * Pow256(k - 1)

\* byte k (0 = least significant) of the two's complement form of v;
\* values of the model fit 31 bits, bytes above the third are the sign
ByteOf(v, k) ==
    IF k > 3 THEN (IF v >= 0 THEN 0 ELSE 255)
    ELSE IF v >= 0 THEN (v \div Pow256(k)) % 256
    ELSE 255 - ((((0 - v) - 1) \div Pow256(k)) % 256)

\* htonl / htonll followed by memcpy
BigEndian(v, width) == [i \in 1..width |-> ByteOf(v, width - i)]

\* ntohl / ntohll of the bytes, the bit pattern read as a signed number
RECURSIVE Magnitude(_, _)
Magnitude(bytes, neg) ==
    IF bytes = << >> THEN 0
    ELSE LET b == bytes[Len(bytes)]
         IN (IF neg THEN 255 - b ELSE b)
            + 256 * Magnitude(SubSeq(bytes, 1, Len(bytes) - 1), neg)

\* the bytes above the low four only extend the sign of the low four
FitsInt32(bytes) ==
    \A i \in 1..(Len(bytes) - 4) :
        bytes[i] = (IF bytes[Len(bytes) - 3] >= 128 THEN 255 ELSE 0)

\* a 64 bit pattern beyond 32 bits stands for itself
FromBigEndian(bytes) ==
    IF ~FitsInt32(bytes) THEN bytes
    ELSE IF bytes[1] >= 128 THEN (0 - Magnitude(bytes, TRUE)) - 1
    ELSE Magnitude(bytes, FALSE)

\* reserve_space
reserve_space(b, bytes) ==
    IF b.pos + bytes > b.size
    THEN LET doubled == b.size * 2
         IN [b EXCEPT !.size = IF b.pos + bytes > doubled THEN doubled + bytes ELSE doubled]
    ELSE b

\* new_serial_buf
INITIAL_SERIAL_BUF_SIZE == 32
new_serial_buf(size) ==
    [alloc |-> TRUE, data |-> << >>, pos |-> 0,
     size |-> IF size <= 0 THEN INITIAL_SERIAL_BUF_SIZE ELSE size]

\* make_serial_buf
make_serial_buf(data, size) == [alloc |-> TRUE, data |-> data, pos |-> size, size |-> size]

\* memcpy((char *)b->data + b->pos, src, n); b->pos += n
Append_(b, bytes) ==
    [b EXCEPT !.data = SubSeq(b.data, 1, b.pos) \o bytes, !.pos = b.pos + Len(bytes)]

\* serialize_int32_t
serialize_int32_t(b, t) == Append_(reserve_space(b, 4), BigEndian(t, 4))

\* serialize_int64_t
serialize_int64_t(b, t) == Append_(reserve_space(b, 8), BigEndian(t, 8))

\* serialize_blob that leaves out the size word
serialize_blob_NoSize(b, t) == Append_(reserve_space(b, Len(t) + 4), t)

\* serialize_blob
serialize_blob(b, t) ==
    Append_(Append_(reserve_space(b, Len(t) + 4), t), BigEndian(Len(t), 4))

\* serialize_str
serialize_str(b, t) == serialize_blob(b, t)

\* deserialize_int32_t / deserialize_int64_t: [ok, val, b]
deserialize_int(b, width) ==
    IF b.pos < width THEN [ok |-> FALSE, val |-> 0, b |-> b]
    ELSE [ok |-> TRUE,
          val |-> FromBigEndian(SubSeq(b.data, b.pos - width + 1, b.pos)),
          b |-> [b EXCEPT !.pos = b.pos - width]]

deserialize_int32_t(b) == deserialize_int(b, 4)
deserialize_int64_t(b) == deserialize_int(b, 8)

\* deserialize_blob: [ok, val, b]
deserialize_blob(b) ==
    IF b.pos < 4 THEN [ok |-> FALSE, val |-> << >>, b |-> b]
    ELSE LET b1 == [b EXCEPT !.pos = b.pos - 4]
             bytes == FromBigEndian(SubSeq(b.data, b1.pos + 1, b1.pos + 4))
         IN IF bytes < 0 \/ b1.pos < bytes
            THEN [ok |-> FALSE, val |-> << >>, b |-> b1]
            ELSE [ok |-> TRUE,
                  val |-> SubSeq(b.data, b1.pos - bytes + 1, b1.pos),
                  b |-> [b1 EXCEPT !.pos = b1.pos - bytes]]

\* deserialize_str
deserialize_str(b) == deserialize_blob(b)


(***************************************************************************)
(* Plan payload: DBusServer::SerializeSchedInfo and the node's             *)
(* deserialize_sched_info                                                  *)
(***************************************************************************)
kNsToUs == 1000
TINFO_NAME_MAX == 16
TINFO_NODEID_MAX == 64
SCHED_INFO_BUF_SIZE == 1280         \* new_serial_buf(1024 + 256)

\* the body of the task loop of SerializeSchedInfo
SerializeTask(b, task) ==
    LET b1 == serialize_str(b, Substr(task.task_name, 16 - 1))
        b2 == serialize_int32_t(b1, task.sched_priority)
        b3 == serialize_int32_t(b2, task.sched_policy)
        b4 == serialize_int32_t(b3, task.period_ns \div kNsToUs)
        b5 == serialize_int32_t(b4, task.release_time)
        b6 == serialize_int32_t(b5, task.runtime_ns \div kNsToUs)
        b7 == serialize_int32_t(b6, task.deadline_ns \div kNsToUs)
        b8 == serialize_int64_t(b7, task.cpu_affinity)
        b9 == serialize_int32_t(b8, task.max_dmiss)
    IN serialize_str(b9, Substr(task.assigned_node, 64 - 1))

RECURSIVE SerializeTasks(_, _)
SerializeTasks(b, tasks) ==
    IF tasks = << >> THEN b
    ELSE LET next == SerializeTask(b, Head(tasks))
         IN IF next.alloc THEN SerializeTasks(next, Tail(tasks)) ELSE next

\* the loop over the nodes of the first workload, in map order
RECURSIVE SerializeNodes(_, _, _)
SerializeNodes(b, node_sched_info, node_ids) ==
    IF node_ids = << >> THEN b
    ELSE SerializeNodes(SerializeTasks(b, node_sched_info[Head(node_ids)]),
                        node_sched_info, Tail(node_ids))

RECURSIVE SumLen(_, _)
SumLen(node_sched_info, node_ids) ==
    IF node_ids = << >> THEN 0
    ELSE Len(node_sched_info[Head(node_ids)]) + SumLen(node_sched_info, Tail(node_ids))

\* DBusServer::SerializeSchedInfo for an unallocated buffer: the new buffer
SerializeSchedInfo(map, hyperperiod_us) ==
    LET workload_id == MapBegin(map)
        node_sched_info == map[workload_id]
        node_ids == SortedKeys(DOMAIN node_sched_info)
        b0 == new_serial_buf(SCHED_INFO_BUF_SIZE)
        b1 == serialize_int64_t(b0, hyperperiod_us)
        b2 == serialize_str(b1, Substr(workload_id, 64 - 1))
        b3 == SerializeNodes(b2, node_sched_info, node_ids)
    IN serialize_int32_t(b3, SumLen(node_sched_info, node_ids))

\* one field written at the end of the buffer
serialize_field(b, type, val) ==
    IF type = "str" THEN serialize_str(b, val)
    ELSE IF type = "int64_t" THEN serialize_int64_t(b, val)
    ELSE serialize_int32_t(b, val)

\* one field read from the tail of the buffer: [ok, val, b]
deserialize_field(b, type) ==
    IF type = "str" THEN deserialize_str(b)
    ELSE IF type = "int64_t" THEN deserialize_int64_t(b)
    ELSE deserialize_int32_t(b)

\* fields read one after the other until one fails: [ok, val, b], val the
\* values in the order read
RECURSIVE DeserializeFields(_, _, _)
DeserializeFields(b, types, vals) ==
    IF types = << >> THEN [ok |-> TRUE, b |-> b, val |-> vals]
    ELSE Let(deserialize_field(b, Head(types)), LAMBDA r :
            IF ~r.ok THEN [ok |-> FALSE, b |-> r.b, val |-> vals]
            ELSE DeserializeFields(r.b, Tail(types), Append(vals, r.val)))

\* the fields of one task_info, read in the reverse of the order written:
\* [ok, val, b]
DeserializeTask(b) ==
    Let(DeserializeFields(b, <<"str", "int32_t", "int64_t", "int32_t", "int32_t",
                               "int32_t", "int32_t", "int32_t", "int32_t", "str">>, << >>),
        LAMBDA r :
            IF r.ok
            THEN [ok |-> TRUE, b |-> r.b,
                  val |-> [node_id |-> r.val[1],
                           allowable_deadline_misses |-> r.val[2],
                           cpu_affinity |-> r.val[3],
                           deadline |-> r.val[4],
                           runtime |-> r.val[5],
                           release_time |-> r.val[6],
                           period |-> r.val[7],
                           sched_policy |-> r.val[8],
                           sched_priority |-> r.val[9],
                           name |-> r.val[10]]]
            ELSE [ok |-> FALSE, b |-> b, val |-> << >>])

\* DeserializeTasks that links each decoded task behind the ones before it
RECURSIVE DeserializeTasks_Append(_, _, _)
DeserializeTasks_Append(b, remaining, list) ==
    IF remaining = 0 THEN [ok |-> TRUE, b |-> b, val |-> list]
    ELSE Let(DeserializeTask(b), LAMBDA r :
            IF ~r.ok THEN [ok |-> FALSE, b |-> b, val |-> << >>]
            ELSE DeserializeTasks_Append(r.b, IF remaining > 0 THEN remaining - 1 ELSE remaining,
                                         list \o <<r.val>>))

\* the task loop of deserialize_sched_info; every task read is put at the head
\* of the list.  A count whose sign bit is set is a uint32_t beyond 2^31: the
\* loop cannot reach it before the buffer runs out.
RECURSIVE DeserializeTasks(_, _, _)
DeserializeTasks(b, remaining, list) ==
    IF remaining = 0 THEN [ok |-> TRUE, b |-> b, val |-> list]
    ELSE Let(DeserializeTask(b), LAMBDA r :
            IF ~r.ok THEN [ok |-> FALSE, b |-> b, val |-> << >>]
            ELSE DeserializeTasks(r.b, IF remaining > 0 THEN remaining - 1 ELSE remaining,
                                  <<r.val>> \o list))

NoSchedInfo == [nr_tasks |-> 0, tasks |-> << >>, workload_id |-> EmptyStr, hyperperiod_us |-> 0]

\* deserialize_sched_info with init_hyperperiod: [ret, sinfo]
deserialize_sched_info(sbuf) ==
    Let(deserialize_int32_t(sbuf), LAMBDA r1 :
        IF ~r1.ok
        THEN [ret |-> "TT_ERROR_NETWORK", sinfo |-> NoSchedInfo, workload_id |-> EmptyStr]
        ELSE Let(DeserializeTasks(r1.b, r1.val, << >>), LAMBDA r2 :
            Let(IF r2.ok
                THEN DeserializeFields(r2.b, <<"str", "int64_t">>, << >>)
                ELSE [ok |-> FALSE, b |-> r2.b, val |-> << >>],
                LAMBDA r3 :
                    IF r3.ok
                    THEN [ret |-> "TT_SUCCESS",
                          sinfo |-> [nr_tasks |-> r1.val, tasks |-> r2.val,
                                     workload_id |-> Strncpy(r3.val[1], TINFO_NODEID_MAX),
                                     hyperperiod_us |-> r3.val[2]],
                          workload_id |-> r3.val[1]]
                    ELSE [ret |-> "TT_ERROR_NETWORK",
                          sinfo |-> [NoSchedInfo EXCEPT !.nr_tasks = r1.val],
                          workload_id |-> EmptyStr])))


(***************************************************************************)
(* Inputs                                                                  *)
(***************************************************************************)

TaskInfo(name, policy, cpu_affinity, period, runtime, release_time, max_dmiss, node_id) ==
    [name |-> name, priority |-> 50, policy |-> policy, cpu_affinity |-> cpu_affinity,
     period |-> period, runtime |-> runtime, deadline |-> period,
     release_time |-> release_time, max_dmiss |-> max_dmiss, node_id |-> node_id]

\* the kinds of task a workload of the model is made of; i is the position
TaskKind(k, i) ==
    CASE k = 1 -> TaskInfo(TaskName(i), "FIFO", 0, 100000, 50000, 0, 0, N1)
      [] k = 2 -> TaskInfo(TaskName(i), "RR", 1, 100000, 40000, 0, 0, N1)
      [] k = 3 -> TaskInfo(TaskName(i), "FIFO", 0, 100000, 95000, 0, 0, N1)
      [] k = 4 -> TaskInfo(LongName(i), "FIFO", CPU_AFFINITY_ALL, 200000, 50000, 3, 2, N2)
      [] k = 5 -> TaskInfo(TaskName(i), "FIFO", 0, 200000, 100000, 0, 0, N9)
      [] k = 6 -> TaskInfo(Name15(i), "FIFO", 4, 150000, 60000, 0, 0, N1)

TaskKinds == 1..6

\* every workload of 1..MaxTasks tasks drawn from the kinds
AllRequests ==
    {[workload_id |-> W1, tasks |-> [i \in DOMAIN ks |-> TaskKind(ks[i], i)]] :
        ks \in UNION {[1..m -> TaskKinds] : m \in 1..MaxTasks}}
        \cup {[workload_id |-> WLong, tasks |-> <<TaskKind(1, 1), TaskKind(4, 2)>>]}

\* the workloads submitted to the running system
Requests ==
    {[workload_id |-> W1, tasks |-> <<TaskKind(1, 1)>>],
     [workload_id |-> W2, tasks |-> <<TaskKind(1, 1), TaskKind(4, 2)>>],
     [workload_id |-> W1, tasks |-> <<TaskKind(5, 1)>>],
     [workload_id |-> W2, tasks |-> << >>]}

\* the workloads that replace the one the nodes have fetched
SyncRequests ==
    {[workload_id |-> W1, tasks |-> <<TaskKind(1, 1)>>],
     [workload_id |-> W1, tasks |-> <<TaskKind(5, 1)>>]}

\* what a malloc'ed task array may hold where nothing is written
Uninit == {0, 7}

(***************************************************************************)
(* Wall clock                                                              *)
(***************************************************************************)
TT_TIMER_INCREMENT_NS == 5000000
NSEC_PER_SEC == 1000000000
USEC_PER_SEC == 1000000
NSEC_PER_USEC == 1000
NsecValues == {0, 999000000}
ClockValues == {[tv_sec |-> sec, tv_nsec |-> nsec] : sec \in 0..MaxSec, nsec \in NsecValues}
ZeroTs == [tv_sec |-> 0, tv_nsec |-> 0]

TsLeq(a, b) == a.tv_sec < b.tv_sec \/ (a.tv_sec = b.tv_sec /\ a.tv_nsec <= b.tv_nsec)

\* clock_gettime: the readings that may follow the last one
ClockGettime == {now \in ClockValues : TsLeq(clock, now)}

(***************************************************************************)
(* SchedInfoServiceImpl                                                    *)
(***************************************************************************)
NoRpc == [op |-> "none", name |-> EmptyStr, ack |-> 0, ts |-> ZeroTs,
          buf |-> << >>, bufsize |-> 0, status |-> 0, faults |-> << >>]

\* the flag AddSchedInfo raises for DBusServer when it has stored a plan
MarkSchedInfoChanged(success) == IF success THEN TRUE ELSE sched_info_changed_

\* GetSchedInfoMap(&changed): hands the flag out and lowers it
GetSchedInfoMapChanged == sched_info_changed_

\* the tasks of the final assignment: those generate_schedules puts in a plan
ScheduledTasks(tasks) == SelectSeq(tasks, LAMBDA t : t.assigned_node # EmptyStr)

\* the hyperperiod AddSchedInfo has computed for the workload it stored
StoreHyperperiod(success, workload_id, tasks) ==
    IF success THEN (workload_id :> CalculateHyperperiod(tasks)) ELSE hyperperiod_map_

\* SchedInfoServer::GetHyperperiodInfo, 0 when there is none
GetHyperperiodInfo(hyperperiods, workload_id) ==
    IF workload_id \in DOMAIN hyperperiods THEN hyperperiods[workload_id] ELSE 0

\* what SchedInfoServiceImpl::AddSchedInfo computes: [tasks, util, map, success]
ScheduleRequest(request, heap) ==
    Let(ConvertTaskInfoToTasks(request), LAMBDA tasks :
    Let(IF tasks = << >>
        THEN [tasks |-> << >>, util |-> initialize_cpu_utilization_tracking(EmptyMap)]
        ELSE schedule(tasks), LAMBDA scheduled :
    Let(generate_schedules(scheduled.tasks, heap), LAMBDA node_sched_map :
    Let(tasks # << >> /\ DOMAIN node_sched_map # {}, LAMBDA scheduling_success :
        [tasks |-> scheduled.tasks, util |-> scheduled.util,
         map |-> IF scheduling_success THEN (request.workload_id :> node_sched_map)
                 ELSE EmptyMap,
         success |-> scheduling_success]))))

\* the contents malloc may hand out for the task arrays of a request
Heaps(request) ==
    [ScheduledNodes(ScheduleRequest(request, [n \in {N1, N2, N9} |-> 0]).tasks) -> Uninit]

\* an AddSchedInfo that keeps the installed plan when the new one fails
AddSchedInfo_KeepOnFailure(request) ==
    \E heap \in Heaps(request) :
        LET r == ScheduleRequest(request, heap)
        IN /\ tasks_' = r.tasks
           /\ cpu_utilization_per_node_' = r.util
           /\ sched_info_map_' = IF r.success THEN r.map ELSE sched_info_map_
           /\ sched_info_changed_' = MarkSchedInfoChanged(r.success)
           /\ hyperperiod_map_' = StoreHyperperiod(r.success, request.workload_id,
                                                   ScheduledTasks(r.tasks))
           /\ rpc' = [NoRpc EXCEPT !.op = "AddSchedInfo", !.name = request.workload_id,
                                   !.status = IF r.success THEN 0 ELSE -1]
           /\ UNCHANGED <<ext, sched_info_buf_, node_sync_map_, sync_callers, acked_ts, clock, node>>

\* SchedInfoServiceImpl::AddSchedInfo
AddSchedInfo(request) ==
    \E heap \in Heaps(request) :
        LET r == ScheduleRequest(request, heap)
        IN /\ tasks_' = r.tasks
           /\ cpu_utilization_per_node_' = r.util
           /\ sched_info_map_' = r.map
           /\ sched_info_changed_' = MarkSchedInfoChanged(r.success)
           /\ hyperperiod_map_' = StoreHyperperiod(r.success, request.workload_id,
                                                   ScheduledTasks(r.tasks))
           /\ rpc' = [NoRpc EXCEPT !.op = "AddSchedInfo", !.name = request.workload_id,
                                   !.status = IF r.success THEN 0 ELSE -1]
           /\ UNCHANGED <<ext, sched_info_buf_, node_sync_map_, sync_callers, acked_ts, clock, node>>

(***************************************************************************)
(* DBusServer                                                              *)
(***************************************************************************)
NullBuf == [alloc |-> FALSE, data |-> << >>, pos |-> 0, size |-> 0]

\* SchedInfoCallback that serializes for each caller the tasks of its own node
SchedInfoCallback_PerNode(name) ==
    LET has_map == DOMAIN sched_info_map_ # {}
        slice == [w \in DOMAIN sched_info_map_ |->
                    [n \in DOMAIN sched_info_map_[w] \cap {name} |-> sched_info_map_[w][n]]]
        buf_expr == IF has_map
                THEN SerializeSchedInfo(slice,
                        GetHyperperiodInfo(hyperperiod_map_, MapBegin(sched_info_map_)))
                ELSE NullBuf
    IN Let(buf_expr, LAMBDA buf_ :
          IF has_map /\ buf_.alloc
          THEN [buf_ |-> buf_, data |-> SubSeq(buf_.data, 1, buf_.pos), bufsize |-> buf_.pos]
          ELSE [buf_ |-> buf_, data |-> << >>, bufsize |-> 0])

\* SchedInfoCallback that keeps the buffer it has, whatever has changed
SchedInfoCallback_KeepCache(name) ==
    LET freed == sched_info_buf_
        has_map == DOMAIN sched_info_map_ # {}
        buf_expr == IF has_map /\ ~freed.alloc
                THEN SerializeSchedInfo(sched_info_map_,
                        GetHyperperiodInfo(hyperperiod_map_, MapBegin(sched_info_map_)))
                ELSE freed
    IN Let(buf_expr, LAMBDA buf_ :
          IF has_map /\ buf_.alloc
          THEN [buf_ |-> buf_, data |-> SubSeq(buf_.data, 1, buf_.pos), bufsize |-> buf_.pos]
          ELSE [buf_ |-> buf_, data |-> << >>, bufsize |-> 0])

\* SchedInfoCallback that hands out the buffer it holds without looking at
\* the map
SchedInfoCallback_StaleBuf(name) ==
    LET changed == GetSchedInfoMapChanged
        freed == IF changed THEN NullBuf ELSE sched_info_buf_
        has_map == DOMAIN sched_info_map_ # {}
        buf_expr == IF has_map /\ ~freed.alloc
                THEN SerializeSchedInfo(sched_info_map_,
                        GetHyperperiodInfo(hyperperiod_map_, MapBegin(sched_info_map_)))
                ELSE freed
    IN Let(buf_expr, LAMBDA buf_ :
          IF buf_.alloc
          THEN [buf_ |-> buf_, data |-> SubSeq(buf_.data, 1, buf_.pos), bufsize |-> buf_.pos]
          ELSE [buf_ |-> buf_, data |-> << >>, bufsize |-> 0])

\* DBusServer::SchedInfoCallback: [buf_, data, bufsize]
SchedInfoCallback(name) ==
    LET changed == GetSchedInfoMapChanged
        freed == IF changed THEN NullBuf ELSE sched_info_buf_
        has_map == DOMAIN sched_info_map_ # {}
        buf_expr == IF has_map /\ ~freed.alloc
                THEN SerializeSchedInfo(sched_info_map_,
                        GetHyperperiodInfo(hyperperiod_map_, MapBegin(sched_info_map_)))
                ELSE freed
    IN Let(buf_expr, LAMBDA buf_ :
          IF has_map /\ buf_.alloc
          THEN [buf_ |-> buf_, data |-> SubSeq(buf_.data, 1, buf_.pos), bufsize |-> buf_.pos]
          ELSE [buf_ |-> buf_, data |-> << >>, bufsize |-> 0])

\* the server side of one SchedInfo call
ServeSchedInfo(name) ==
    \E r \in {SchedInfoCallback(name)} :
       /\ sched_info_buf_' = r.buf_
       /\ sched_info_changed_' = FALSE
       /\ rpc' = [NoRpc EXCEPT !.op = "SchedInfo", !.name = name,
                               !.buf = r.data, !.bufsize = r.bufsize]
       /\ UNCHANGED <<ext, tasks_, cpu_utilization_per_node_, sched_info_map_, hyperperiod_map_,
                      node_sync_map_, sync_callers, acked_ts, clock>>

DMissFallback_Empty(map) == EmptyStr

\* the workload a DMiss call is reported for when no workload has the task
\* on the node: the first one
DMissFallback(map) == MapBegin(map)

\* DBusServer::DMissCallback: the FaultInfo requests handed to NotifyFault
DMissCallback(name, task) ==
    LET map == sched_info_map_
        found == {wl_id \in DOMAIN map :
                     /\ name \in DOMAIN map[wl_id]
                     /\ \E i \in DOMAIN map[wl_id][name] : map[wl_id][name][i].task_name = task}
        workload_id == IF DOMAIN map = {} THEN EmptyStr
                       ELSE IF found # {} THEN SortedKeys(found)[1]
                       ELSE DMissFallback(map)
    IN <<[workload_id |-> workload_id, node_id |-> name, task_name |-> task,
          type |-> "DMISS"]>>

\* the server side of one DMiss call; NotifyFault succeeds or fails, and a
\* failure is logged
ServeDMiss(name, task) ==
    /\ \E notified \in BOOLEAN :
          rpc' = [NoRpc EXCEPT !.op = "DMiss", !.name = name,
                               !.faults = DMissCallback(name, task),
                               !.status = IF notified THEN 0 ELSE -1]
    /\ UNCHANGED <<ext, tasks_, cpu_utilization_per_node_, sched_info_map_, sched_info_changed_,
                   hyperperiod_map_, sched_info_buf_, node_sync_map_, sync_callers, acked_ts,
                   clock>>

\* SyncCallback that opens the barrier as soon as any node is ready
SyncCallback_AnyReady(name, now) ==
    LET created == IF DOMAIN node_sync_map_ = {} /\ DOMAIN sched_info_map_ # {}
                   THEN [n \in DOMAIN sched_info_map_[MapBegin(sched_info_map_)] |-> FALSE]
                   ELSE node_sync_map_
        marked == IF name \in DOMAIN created THEN [created EXCEPT ![name] = TRUE] ELSE created
        any_ready == \E n \in DOMAIN marked : marked[n]
    IN IF name \notin DOMAIN created
       THEN [map |-> created, ack |-> 0, ts |-> ZeroTs]
       ELSE IF any_ready
       THEN [map |-> marked, ack |-> 1,
             ts |-> [tv_sec |-> now.tv_sec + 1, tv_nsec |-> now.tv_nsec]]
       ELSE [map |-> marked, ack |-> 0, ts |-> ZeroTs]

\* SyncCallback that enters a caller it does not know into the barrier map
SyncCallback_AddUnknown(name, now) ==
    LET created == IF DOMAIN node_sync_map_ = {} /\ DOMAIN sched_info_map_ # {}
                   THEN [n \in DOMAIN sched_info_map_[MapBegin(sched_info_map_)] |-> FALSE]
                   ELSE node_sync_map_
        marked == [n \in DOMAIN created \cup {name} |->
                      IF n = name THEN TRUE ELSE created[n]]
        all_ready == \A n \in DOMAIN marked : marked[n]
    IN IF name \notin DOMAIN created
       THEN [map |-> marked, ack |-> 0, ts |-> ZeroTs]
       ELSE IF all_ready
       THEN [map |-> marked, ack |-> 1,
             ts |-> [tv_sec |-> now.tv_sec + 1, tv_nsec |-> now.tv_nsec]]
       ELSE [map |-> marked, ack |-> 0, ts |-> ZeroTs]

\* SyncCallback that closes the barrier again once it has let the nodes through
SyncCallback_Reset(name, now) ==
    LET created == IF DOMAIN node_sync_map_ = {} /\ DOMAIN sched_info_map_ # {}
                   THEN [n \in DOMAIN sched_info_map_[MapBegin(sched_info_map_)] |-> FALSE]
                   ELSE node_sync_map_
        marked == IF name \in DOMAIN created THEN [created EXCEPT ![name] = TRUE] ELSE created
        all_ready == \A n \in DOMAIN marked : marked[n]
    IN IF name \notin DOMAIN created
       THEN [map |-> created, ack |-> 0, ts |-> ZeroTs]
       ELSE IF all_ready
       THEN [map |-> [n \in DOMAIN marked |-> FALSE], ack |-> 1,
             ts |-> [tv_sec |-> now.tv_sec + 1, tv_nsec |-> now.tv_nsec]]
       ELSE [map |-> marked, ack |-> 0, ts |-> ZeroTs]

\* DBusServer::SyncCallback: [map, ack, ts]
SyncCallback(name, now) ==
    LET created == IF DOMAIN node_sync_map_ = {} /\ DOMAIN sched_info_map_ # {}
                   THEN [n \in DOMAIN sched_info_map_[MapBegin(sched_info_map_)] |-> FALSE]
                   ELSE node_sync_map_
        marked == IF name \in DOMAIN created THEN [created EXCEPT ![name] = TRUE] ELSE created
        all_ready == \A n \in DOMAIN marked : marked[n]
    IN IF name \notin DOMAIN created
       THEN [map |-> created, ack |-> 0, ts |-> ZeroTs]
       ELSE IF all_ready
       THEN [map |-> marked, ack |-> 1,
             ts |-> [tv_sec |-> now.tv_sec + 1, tv_nsec |-> now.tv_nsec]]
       ELSE [map |-> marked, ack |-> 0, ts |-> ZeroTs]

\* the latest of the timestamps handed out
LatestAck(ts) ==
    IF acked_ts.valid /\ TsLeq(ts, acked_ts.ts) THEN acked_ts ELSE [valid |-> TRUE, ts |-> ts]

\* the server side of one Sync call
ServeSync(name, now) ==
    \E r \in {SyncCallback(name, now)} :
       /\ node_sync_map_' = r.map
       /\ sync_callers' = IF DOMAIN r.map # {} THEN sync_callers \cup {name} ELSE sync_callers
       /\ acked_ts' = IF r.ack = 1 THEN LatestAck(r.ts) ELSE acked_ts
       /\ clock' = IF r.ack = 1 THEN now ELSE clock
       /\ rpc' = [NoRpc EXCEPT !.op = "Sync", !.name = name, !.ack = r.ack, !.ts = r.ts]
       /\ UNCHANGED <<ext, tasks_, cpu_utilization_per_node_, sched_info_map_, sched_info_changed_,
                      hyperperiod_map_, sched_info_buf_>>

CallerNames == {N1, N2, N9}

\* a DMiss call of any peer on the bus
trpc_client_dmiss(name, task) ==
    /\ ServeDMiss(name, task)
    /\ UNCHANGED node

\* a SchedInfo call of any peer on the bus
trpc_client_schedinfo(name) ==
    /\ ServeSchedInfo(name)
    /\ UNCHANGED node

\* a Sync call of any peer on the bus
trpc_client_sync(name) ==
    /\ \E now \in ClockGettime : ServeSync(name, now)
    /\ UNCHANGED node

(***************************************************************************)
(* Node process                                                            *)
(***************************************************************************)
ClientNodes == {N1, N2}

NodeInit(enable_sync) ==
    [pc |-> "init_trpc", enable_sync |-> enable_sync, sched_info |-> NoSchedInfo,
     starttimer_ts |-> ZeroTs, it_value |-> ZeroTs,
     hyperperiod_timer |-> [created |-> FALSE, it_value |-> ZeroTs, it_interval |-> ZeroTs],
     retry_count |-> 0, slept_us |-> 0, connected |-> FALSE, dbus |-> FALSE,
     tt_list |-> << >>, task_list |-> "none", setup |-> << >>, open_connections |-> 0]

\* what get_sched_info makes of the reply of SchedInfo: [ret, sinfo]
GetSchedInfoResult(buf, bufsize) ==
    IF bufsize = 0
    THEN [ret |-> "TT_ERROR_NETWORK", sinfo |-> NoSchedInfo, workload_id |-> EmptyStr]
    ELSE deserialize_sched_info(make_serial_buf(buf, bufsize))

\* get_sched_info, one attempt of the loop of init_trpc
get_sched_info(n) ==
    /\ node[n].pc = "init_trpc"
    /\ ServeSchedInfo(n)
    /\ \E r \in {GetSchedInfoResult(rpc'.buf, rpc'.bufsize)} :
          node' = [node EXCEPT ![n] =
                     IF r.ret = "TT_SUCCESS"
                     THEN [@ EXCEPT !.sched_info = r.sinfo, !.pc = "run"]
                     ELSE @]

BelongsToNode_Any(node_id, ti) == TRUE

\* strcmp(ctx->config.node_id, ti->node_id) == 0
BelongsToNode(node_id, ti) == node_id = ti.node_id

\* the loop of init_task_list from task i on: a task of the node whose
\* task_setup_process succeeds is inserted at the head of tt_list; setup[i]
\* says whether the process of task i is found and its pidfd can be opened
RECURSIVE InsertTasks(_, _, _, _, _)
InsertTasks(tasks, node_id, setup, i, tt_list) ==
    IF i > Len(tasks) THEN tt_list
    ELSE IF ~BelongsToNode(node_id, tasks[i])
    THEN InsertTasks(tasks, node_id, setup, i + 1, tt_list)
    ELSE IF setup[i] # "TT_SUCCESS"
    THEN InsertTasks(tasks, node_id, setup, i + 1, tt_list)
    ELSE InsertTasks(tasks, node_id, setup, i + 1, <<tasks[i]>> \o tt_list)

\* what task_setup_process may return: the process is not running, its
\* pidfd cannot be created, or all is well
SetupResults == {"not_running", "no_pidfd", "TT_SUCCESS"}

\* init_task_list of node n, once the plan is fetched
init_task_list(n) ==
    /\ node[n].pc = "run"
    /\ node[n].task_list = "none"
    /\ \E setup \in [DOMAIN node[n].sched_info.tasks -> SetupResults] :
          LET tt_list == InsertTasks(node[n].sched_info.tasks, n, setup, 1, << >>)
              success_count == Len(tt_list)
          IN node' = [node EXCEPT ![n].tt_list = tt_list,
                                  ![n].setup = setup,
                                  ![n].task_list = IF success_count = 0 THEN "TT_ERROR_CONFIG"
                                                   ELSE "TT_SUCCESS",
                                  ![n].pc = IF success_count = 0 THEN "TT_ERROR_CONFIG" ELSE @]
    /\ UNCHANGED <<ext, tasks_, cpu_utilization_per_node_, sched_info_map_, sched_info_changed_,
                   hyperperiod_map_, sched_info_buf_, node_sync_map_, sync_callers,
                   acked_ts, rpc, clock>>

\* timer_settime(TIMER_ABSTIME) takes the expiration (EINVAL otherwise)
timer_settime(it_value) == 0 <= it_value.tv_nsec /\ it_value.tv_nsec < NSEC_PER_SEC

\* start_timers: the node context with every task timer armed, or with the
\* error of the first timer_settime
start_timers(ctx, now) ==
    LET starttimer_ts == IF ~ctx.enable_sync
                         THEN [tv_sec |-> now.tv_sec,
                               tv_nsec |-> now.tv_nsec + TT_TIMER_INCREMENT_NS]
                         ELSE ctx.starttimer_ts
    IN [ctx EXCEPT !.starttimer_ts = starttimer_ts, !.it_value = starttimer_ts,
                   !.pc = IF timer_settime(starttimer_ts) THEN "start_hyperperiod_timer"
                          ELSE "TT_ERROR_TIMER"]

hyperperiod_it_value_AtStart(starttimer_ts, hyperperiod_us) == starttimer_ts

\* the first expiration of the hyperperiod timer
hyperperiod_it_value(starttimer_ts, hyperperiod_us) ==
    LET tv_sec == starttimer_ts.tv_sec + (hyperperiod_us \div USEC_PER_SEC)
        tv_nsec == starttimer_ts.tv_nsec + (hyperperiod_us % USEC_PER_SEC) * NSEC_PER_USEC
    IN IF tv_nsec >= NSEC_PER_SEC
       THEN [tv_sec |-> tv_sec + 1, tv_nsec |-> tv_nsec - NSEC_PER_SEC]
       ELSE [tv_sec |-> tv_sec, tv_nsec |-> tv_nsec]

\* start_hyperperiod_timer, after start_timers has succeeded; run goes on to
\* epoll_loop
start_hyperperiod_timer(ctx) ==
    LET hyperperiod_us == ctx.sched_info.hyperperiod_us
        it_value == hyperperiod_it_value(ctx.starttimer_ts, hyperperiod_us)
        it_interval == [tv_sec |-> hyperperiod_us \div USEC_PER_SEC,
                        tv_nsec |-> (hyperperiod_us % USEC_PER_SEC) * NSEC_PER_USEC]
    IN IF ctx.pc # "start_hyperperiod_timer" THEN ctx
       ELSE IF hyperperiod_us = 0 THEN [ctx EXCEPT !.pc = "epoll_loop"]
       ELSE [ctx EXCEPT !.hyperperiod_timer = [created |-> TRUE, it_value |-> it_value,
                                               it_interval |-> it_interval],
                        !.pc = IF timer_settime(it_value) THEN "epoll_loop"
                               ELSE "TT_ERROR_TIMER"]

\* run with sync enabled: one poll of sync_timer_internal, and start_timers
\* and start_hyperperiod_timer once the server has acknowledged
run_sync(n) ==
    /\ node[n].pc = "run"
    /\ node[n].enable_sync
    /\ \E now \in ClockGettime : ServeSync(n, now)
    /\ node' = [node EXCEPT ![n] =
                  IF rpc'.ack = 1
                  THEN start_hyperperiod_timer(
                           start_timers([@ EXCEPT !.starttimer_ts = rpc'.ts], clock'))
                  ELSE @]

\* run with sync disabled: start_timers at once, and start_hyperperiod_timer
run_nosync(n) ==
    /\ node[n].pc = "run"
    /\ ~node[n].enable_sync
    /\ \E now \in ClockGettime :
          /\ clock' = now
          /\ node' = [node EXCEPT ![n] = start_hyperperiod_timer(start_timers(@, now))]
    /\ UNCHANGED <<ext, tasks_, cpu_utilization_per_node_, sched_info_map_, sched_info_changed_,
                   hyperperiod_map_, sched_info_buf_, node_sync_map_, sync_callers,
                   acked_ts, rpc>>

(***************************************************************************)
(* The codec on its own                                                    *)
(***************************************************************************)
NoCodec == [phase |-> "none", b |-> NullBuf, fields |-> << >>, ok |-> TRUE]

(***************************************************************************)
(* A node with its timers running                                          *)
(***************************************************************************)
\* the entries of tt_list
RunTasks == {1, 2}

\* the clock of the node runs from 1 to MaxNow
MaxNow == 2

NoEvent == [timestamp |-> 0, enter |-> FALSE]

\* one struct time_trigger as calloc leaves it, with the position of the
\* thread in timer_expired_handler (pc, before, misses, dmiss, signals), the
\* position of the thread in handle_sigwait_bpf_event (observer, e), the
\* clock, and the history the properties refer to: last is the event applied
\* last, enter_of the instant of the event sigwait_enter is of, prev the
\* value of sigwait_ts_prev at the fire, window the events that have been
\* the last one since the fire, reads the instants of the events whose
\* fields the handler has read
NoTimeTrigger ==
    [sigwait_ts |-> 0, sigwait_ts_prev |-> 0, sigwait_enter |-> FALSE, prev_timer |-> 0,
     pc |-> "idle", before |-> 0, misses |-> 0, dmiss |-> "none", signals |-> 0,
     observer |-> "idle", e |-> NoEvent,
     now |-> 1,
     last |-> NoEvent, enter_of |-> 0, prev |-> 0, window |-> {}, reads |-> {}]

NoRuntime ==
    [main |-> "none", shutdown_requested |-> FALSE,
     hp_manager |-> [total_deadline_misses |-> 0, cycle_deadline_misses |-> 0,
                     completed_cycles |-> 0],
     cycle_sum |-> 0, fires |-> 0,
     handler |-> [t \in RunTasks |-> [pc |-> "idle", reg |-> 0]],
     timer |-> [t \in RunTasks |-> "none"],
     freed |-> [t \in RunTasks |-> FALSE],
     pidfd |-> [t \in RunTasks |-> "open"],
     hyperperiod_timer |-> "none",
     exited |-> {}, epoll_set |-> RunTasks,
     sigwait_rb_thread |-> "none",
     tt_node |-> NoTimeTrigger]

(***************************************************************************)
(* The threads of the orchestrator                                         *)
(***************************************************************************)
MaxPlans == 2

\* main is the thread that calls DBusServer::Start and Stop, event_thread_
\* runs EventLoop and the handlers, grpc runs AddSchedInfo.  The task arrays
\* are told apart by a number: tasks_array is the one the plan map points
\* to, map_copy the one the handler's copy of the map points to, 0 is none
NoThreads ==
    [main |-> "none", running_ |-> FALSE, event_thread_ |-> "none",
     grpc |-> "idle", tasks_array |-> 0, mallocs |-> 0,
     handler |-> "none", map_copy |-> 0]

\* what the added variables hold while the server and the nodes start up
ExtInit == codec = NoCodec /\ ctx_runtime = NoRuntime /\ threads = NoThreads

(***************************************************************************)
(* Spec: workloads are submitted and the plan is handed out                *)
(***************************************************************************)
SysInit ==
    /\ tasks_ = << >>
    /\ cpu_utilization_per_node_ = EmptyMap
    /\ sched_info_map_ = EmptyMap
    /\ sched_info_changed_ = FALSE
    /\ hyperperiod_map_ = EmptyMap
    /\ sched_info_buf_ = NullBuf
    /\ node_sync_map_ = EmptyMap
    /\ sync_callers = {}
    /\ acked_ts = [valid |-> FALSE, ts |-> ZeroTs]
    /\ clock = ZeroTs
    /\ rpc = NoRpc
    /\ node = [n \in ClientNodes |-> NodeInit(TRUE)]

Init == SysInit /\ ExtInit

Next ==
    \/ \E request \in Requests : AddSchedInfo(request)
    \/ \E name \in CallerNames : trpc_client_schedinfo(name)
    \/ \E n \in ClientNodes : get_sched_info(n)

Spec == Init /\ [][Next]_vars

(***************************************************************************)
(* SpecSched: one workload of any shape is scheduled, and node n1 fetches  *)
(* and decodes the plan                                                    *)
(***************************************************************************)
SubmitWorkload ==
    /\ rpc = NoRpc
    /\ \E request \in AllRequests : AddSchedInfo(request)

FetchPlan ==
    /\ rpc.op = "AddSchedInfo"
    /\ get_sched_info(N1)

NextSched == SubmitWorkload \/ FetchPlan

SpecSched == Init /\ [][NextSched]_vars

(***************************************************************************)
(* SpecSync: the start barrier.  The two node workload has been installed  *)
(* and both nodes have fetched it and are about to poll Sync; workloads    *)
(* may still be replaced.                                                  *)
(***************************************************************************)
TwoNodeRequest == [workload_id |-> W2, tasks |-> <<TaskKind(1, 1), TaskKind(4, 2)>>]

\* the two node plan is installed and fetched; the hyperperiod manager has
\* the hyperperiod of the workload, or no entry for it, and each node has its
\* own enable_sync
InitFetched(known, sync) ==
    \E heap \in Heaps(TwoNodeRequest) :
    \E enable_sync \in [ClientNodes -> sync] :
    \E r \in {ScheduleRequest(TwoNodeRequest, heap)} :
    \E hp \in {IF k THEN StoreHyperperiod(TRUE, W2, ScheduledTasks(r.tasks)) ELSE EmptyMap :
                   k \in known} :
    \E b \in {SerializeSchedInfo(r.map, GetHyperperiodInfo(hp, W2))} :
    \E fetched \in {GetSchedInfoResult(SubSeq(b.data, 1, b.pos), b.pos)} :
        /\ tasks_ = r.tasks
        /\ cpu_utilization_per_node_ = r.util
        /\ sched_info_map_ = r.map
        /\ sched_info_changed_ = FALSE
        /\ hyperperiod_map_ = hp
        /\ sched_info_buf_ = b
        /\ node_sync_map_ = EmptyMap
        /\ sync_callers = {}
        /\ acked_ts = [valid |-> FALSE, ts |-> ZeroTs]
        /\ clock = ZeroTs
        /\ rpc = [NoRpc EXCEPT !.op = "SchedInfo", !.name = N2,
                               !.buf = SubSeq(b.data, 1, b.pos), !.bufsize = b.pos]
        /\ node = [n \in ClientNodes |->
                     [NodeInit(enable_sync[n]) EXCEPT !.pc = "run",
                                                      !.sched_info = fetched.sinfo]]
        /\ ExtInit

InitSync == InitFetched({TRUE}, {TRUE})

NextSync ==
    \/ \E request \in SyncRequests : AddSchedInfo(request)
    \/ \E name \in CallerNames : trpc_client_sync(name)
    \/ \E n \in ClientNodes : run_sync(n)

SpecSync == InitSync /\ [][NextSync]_vars

\* SpecSyncPoll: every node goes on polling Sync until it is acknowledged,
\* while the plan is replaced by a one node plan or by the two node plan
NextSyncPoll ==
    \/ \E request \in {[workload_id |-> W1, tasks |-> <<TaskKind(1, 1)>>],
                        TwoNodeRequest} : AddSchedInfo(request)
    \/ \E n \in ClientNodes : run_sync(n)

SpecSyncPoll ==
    InitSync /\ [][NextSyncPoll]_vars /\ \A n \in ClientNodes : WF_vars(run_sync(n))

(***************************************************************************)
(* SpecTwice: a workload is scheduled and fetched, then the same task set  *)
(* is submitted again under the same workload id and fetched again         *)
(***************************************************************************)
SubmitFirst ==
    /\ rpc = NoRpc
    /\ \E request \in AllRequests : AddSchedInfo(request)

\* SchedInfo of node n1, after either submission
FetchEither ==
    /\ rpc.op = "AddSchedInfo"
    /\ trpc_client_schedinfo(N1)

\* the request submitted again is the one whose tasks GlobalScheduler holds
\* and whose plan is installed
SubmitAgain ==
    /\ rpc.op = "SchedInfo"
    /\ DOMAIN sched_info_map_ # {}
    /\ \E request \in AllRequests :
          /\ request.workload_id = MapBegin(sched_info_map_)
          /\ ConvertTaskInfoToTasks(request)
                = [i \in DOMAIN tasks_ |->
                      [tasks_[i] EXCEPT !.assigned_node = EmptyStr, !.assigned_cpu = -1]]
          /\ AddSchedInfo(request)

NextTwice == SubmitFirst \/ FetchEither \/ SubmitAgain

SpecTwice == Init /\ [][NextTwice]_vars

(***************************************************************************)
(* SpecInit: node n1 starts up and runs the loop of init_trpc while        *)
(* workloads are installed on the server, or fail to be                    *)
(***************************************************************************)
TT_RETRY_INTERVAL_US == 1000000
TT_MAX_CONNECTION_RETRIES == 300

\* the end of a failed iteration of the loop: cleanup_trpc_connection,
\* retry_count++, usleep, and the return once the loop condition fails
\* init_trpc_connection: when trpc_client_create succeeds ctx->comm.dbus is
\* a connection more; when it fails nothing is left open
init_trpc_connection(ctx, created) ==
    IF created THEN [ctx EXCEPT !.dbus = TRUE, !.open_connections = @ + 1] ELSE ctx

\* a cleanup that forgets the connection without closing it
cleanup_trpc_connection_Leak(ctx) == [ctx EXCEPT !.dbus = FALSE]

\* cleanup_trpc_connection: sd_bus_flush_close_unref(*dbus); *dbus = NULL
cleanup_trpc_connection(ctx) ==
    [ctx EXCEPT !.dbus = FALSE, !.open_connections = IF ctx.dbus THEN @ - 1 ELSE @]

\* the attempt has failed: with the connection made and cleaned up again, or
\* with no connection made
RetryOrGiveUp(ctx, connected, max) ==
    [(IF connected THEN cleanup_trpc_connection(init_trpc_connection(ctx, TRUE)) ELSE ctx)
                EXCEPT !.connected = connected,
                !.retry_count = @ + 1,
                !.slept_us = @ + TT_RETRY_INTERVAL_US,
                !.pc = IF ctx.retry_count + 1 < max THEN "init_trpc"
                       ELSE "TT_ERROR_NETWORK"]

\* one iteration of the loop of init_trpc, which runs while retry_count < max;
\* the attempt meets no connection, a connection on which the call fails, or
\* a connection on which the server replies
init_trpc_loop(n, max) ==
    /\ node[n].pc = "init_trpc"
    /\ node[n].retry_count < max
    /\ \E link \in {"refused", "call_failed", "replied"} :
          IF link = "replied"
          THEN /\ ServeSchedInfo(n)
               /\ \E r \in {GetSchedInfoResult(rpc'.buf, rpc'.bufsize)} :
                     node' = [node EXCEPT ![n] =
                                IF r.ret = "TT_SUCCESS"
                                THEN [init_trpc_connection(@, TRUE)
                                         EXCEPT !.sched_info = r.sinfo, !.pc = "run",
                                                !.connected = TRUE]
                                ELSE RetryOrGiveUp(@, TRUE, max)]
          ELSE /\ node' = [node EXCEPT ![n] = RetryOrGiveUp(@, link = "call_failed", max)]
               /\ UNCHANGED <<ext, tasks_, cpu_utilization_per_node_, sched_info_map_,
                              sched_info_changed_, hyperperiod_map_, sched_info_buf_,
                              node_sync_map_, sync_callers, acked_ts, clock, rpc>>

\* an init_trpc that makes one attempt more
init_trpc_OneMore(n) == init_trpc_loop(n, TT_MAX_CONNECTION_RETRIES + 1)

\* init_trpc
init_trpc(n) == init_trpc_loop(n, TT_MAX_CONNECTION_RETRIES)

\* the workloads submitted while the node starts up: one that is installed
\* and one that is refused and leaves no plan
SubmitDuringInit ==
    \E request \in {[workload_id |-> W1, tasks |-> <<TaskKind(1, 1)>>],
                     [workload_id |-> W2, tasks |-> << >>]} : AddSchedInfo(request)

NextInit == SubmitDuringInit \/ init_trpc(N1)

SpecInit == Init /\ [][NextInit]_vars

(***************************************************************************)
(* SpecServer: DBusServer::Start, the event loop thread with its handlers, *)
(* the gRPC thread in AddSchedInfo, and DBusServer::Stop                   *)
(***************************************************************************)
InitServer ==
    /\ SysInit
    /\ codec = NoCodec
    /\ ctx_runtime = NoRuntime
    /\ threads = [NoThreads EXCEPT !.main = "Start"]

\* DBusServer::Start: the thread is created, and then running_ is set and
\* Start returns true
Start ==
    /\ threads.main \in {"Start", "thread_created"}
    /\ threads' = IF threads.main = "Start"
                  THEN [threads EXCEPT !.main = "thread_created", !.event_thread_ = "while"]
                  ELSE [threads EXCEPT !.main = "started", !.running_ = TRUE]
    /\ UNCHANGED <<sys, codec, ctx_runtime>>

\* DBusServer::EventLoop: while (running_.load()), and sd_event_run, which
\* times out or dispatches a handler; the handler first takes its copy of
\* the plan map from GetSchedInfoMap, under the shared lock
EventLoop ==
    /\ threads.event_thread_ \in {"while", "sd_event_run"}
    /\ IF threads.event_thread_ = "while"
       THEN threads' = [threads EXCEPT !.event_thread_ =
                           IF threads.running_ THEN "sd_event_run" ELSE "exited"]
       ELSE \/ threads' = [threads EXCEPT !.event_thread_ = "while"]
            \/ /\ threads.grpc = "idle"
               /\ \E callback \in {"SchedInfoCallback", "DMissCallback", "SyncCallback"} :
                     threads' = [threads EXCEPT !.event_thread_ = "callback",
                                                !.handler = callback,
                                                !.map_copy = threads.tasks_array]
    /\ UNCHANGED <<sys, codec, ctx_runtime>>

\* the rest of the handler, after the lock is released: SchedInfoCallback and
\* DMissCallback go through sched_info.tasks[i] of their copy, SyncCallback
\* through its keys
Callback ==
    /\ threads.event_thread_ = "callback"
    /\ threads' = [threads EXCEPT !.event_thread_ = "while", !.handler = "none",
                                  !.map_copy = 0]
    /\ UNCHANGED <<sys, codec, ctx_runtime>>

\* SchedInfoServiceImpl::AddSchedInfo in the gRPC thread: under the unique
\* lock it clears the map and the scheduler, which frees the task arrays;
\* then it schedules, which allocates new ones or fails, and stores the plan
AddSchedInfoLocked ==
    /\ threads.mallocs < MaxPlans
    /\ IF threads.grpc = "idle"
       THEN threads' = [threads EXCEPT !.grpc = "locked", !.tasks_array = 0]
       ELSE \E scheduling_success \in BOOLEAN :
               threads' = [threads EXCEPT !.grpc = "idle",
                                          !.mallocs = IF scheduling_success THEN @ + 1 ELSE @,
                                          !.tasks_array =
                                              IF scheduling_success THEN threads.mallocs + 1
                                              ELSE 0]
    /\ UNCHANGED <<sys, codec, ctx_runtime>>

\* DBusServer::Stop: running_ is reset, and the thread joined once it has
\* left EventLoop
Stop ==
    /\ \/ threads.main = "started"
       \/ threads.main = "join" /\ threads.event_thread_ = "exited"
    /\ threads' = IF threads.main = "started"
                  THEN [threads EXCEPT !.main = "join", !.running_ = FALSE]
                  ELSE [threads EXCEPT !.main = "stopped", !.event_thread_ = "joined"]
    /\ UNCHANGED <<sys, codec, ctx_runtime>>

NextServer == Start \/ EventLoop \/ Callback \/ AddSchedInfoLocked \/ Stop

SpecServer == InitServer /\ [][NextServer]_vars

(***************************************************************************)
(* SpecFire: one task, its timer, the thread of timer_expired_handler and  *)
(* the thread that polls the ring buffer of the sigwait events             *)
(***************************************************************************)
InitFire ==
    /\ SysInit
    /\ codec = NoCodec
    /\ threads = NoThreads
    /\ ctx_runtime = [NoRuntime EXCEPT !.timer[1] = "armed", !.sigwait_rb_thread = "polling"]

\* time passes
clock_tick ==
    /\ ctx_runtime.tt_node.now < MaxNow
    /\ ctx_runtime' = [ctx_runtime EXCEPT !.tt_node.now = @ + 1]
    /\ UNCHANGED <<sys, codec, threads>>

\* handle_sigwait_bpf_event for an event of the task, which is later than
\* the one before it and not in the future: tt_p->sigwait_ts is stored, and
\* then tt_p->sigwait_enter
handle_sigwait_bpf_event ==
    /\ LET tt_p == ctx_runtime.tt_node
       IN IF tt_p.observer = "idle"
          THEN \E timestamp \in (tt_p.last.timestamp + 1) .. tt_p.now, enter \in BOOLEAN :
                  LET e == [timestamp |-> timestamp, enter |-> enter]
                  IN ctx_runtime' = [ctx_runtime EXCEPT !.tt_node =
                         [tt_p EXCEPT !.observer = "sigwait_enter", !.e = e,
                                      !.sigwait_ts = e.timestamp,
                                      !.window = IF tt_p.pc = "idle" THEN @ ELSE @ \cup {e}]]
          ELSE ctx_runtime' = [ctx_runtime EXCEPT !.tt_node =
                         [tt_p EXCEPT !.observer = "idle", !.e = NoEvent,
                                      !.sigwait_enter = tt_p.e.enter,
                                      !.enter_of = tt_p.e.timestamp,
                                      !.last = tt_p.e]]
    /\ UNCHANGED <<sys, codec, threads>>

\* the timer expires and a thread enters timer_expired_handler:
\* clock_gettime(&before)
timer_fires ==
    /\ ctx_runtime.timer[1] = "armed"
    /\ ctx_runtime.tt_node.pc = "idle"
    /\ LET tt_node == ctx_runtime.tt_node
       IN ctx_runtime' = [ctx_runtime EXCEPT !.tt_node =
              [tt_node EXCEPT !.pc = "sigwait_ts", !.before = tt_node.now,
                              !.misses = 0, !.dmiss = "none", !.signals = 0,
                              !.prev = tt_node.sigwait_ts_prev, !.reads = {},
                              !.window = {tt_node.last} \cup
                                  (IF tt_node.observer = "idle" THEN {} ELSE {tt_node.e})]]
    /\ UNCHANGED <<sys, codec, threads>>

\* timer_expired_handler, the deadline check, one access to the fields of
\* the last event at a time: if (sigwait_ts), if (!sigwait_enter),
\* else if (sigwait_ts > deadline_ns), else if (sigwait_ts == sigwait_ts_prev),
\* and sigwait_ts_prev = sigwait_ts
check_sigwait ==
    /\ LET tt_node == ctx_runtime.tt_node
           deadline_ns == tt_node.before
           ts_read == [tt_node EXCEPT !.reads = @ \cup {tt_node.sigwait_ts}]
       IN /\ tt_node.pc \in {"sigwait_ts", "sigwait_enter", "late", "stuck", "sigwait_ts_prev"}
          /\ ctx_runtime' = [ctx_runtime EXCEPT !.tt_node =
                CASE tt_node.pc = "sigwait_ts" ->
                       IF tt_node.sigwait_ts # 0
                       THEN [ts_read EXCEPT !.pc = "sigwait_enter"]
                       ELSE [tt_node EXCEPT !.pc = "send_signal"]
                  [] tt_node.pc = "sigwait_enter" ->
                       [tt_node EXCEPT !.reads = @ \cup {tt_node.enter_of},
                                       !.pc = IF ~tt_node.sigwait_enter THEN "miss" ELSE "late"]
                  [] tt_node.pc = "late" ->
                       [ts_read EXCEPT !.pc = IF tt_node.sigwait_ts > deadline_ns
                                              THEN "miss" ELSE "stuck"]
                  [] tt_node.pc = "stuck" ->
                       [ts_read EXCEPT !.pc = IF tt_node.sigwait_ts = tt_node.sigwait_ts_prev
                                              THEN "miss" ELSE "sigwait_ts_prev"]
                  [] tt_node.pc = "sigwait_ts_prev" ->
                       [ts_read EXCEPT !.pc = "send_signal",
                                       !.sigwait_ts_prev = tt_node.sigwait_ts]]
    /\ UNCHANGED <<sys, codec, threads>>

\* a branch of the check that finds a miss: the two counters are
\* incremented (misses is what this fire has added to each) and
\* report_deadline_miss is called, which succeeds or fails; the handler goes
\* on at after_failure when it fails
count_miss_then(after_failure) ==
    /\ ctx_runtime.tt_node.pc = "miss"
    /\ \E result \in {"TT_SUCCESS", "TT_ERROR_NETWORK"} :
          ctx_runtime' = [ctx_runtime EXCEPT
              !.tt_node.misses = @ + 1,
              !.tt_node.dmiss = result,
              !.tt_node.pc = IF result = "TT_SUCCESS" THEN "sigwait_ts_prev"
                             ELSE after_failure]
    /\ UNCHANGED <<sys, codec, threads>>

count_miss_Return == count_miss_then("idle")

\* the handler only logs the failure of report_deadline_miss
count_miss == count_miss_then("sigwait_ts_prev")

\* send_signal_pidfd, which succeeds or fails, and tt_node->prev_timer =
\* before: the handler returns
send_signal_pidfd ==
    /\ ctx_runtime.tt_node.pc = "send_signal"
    /\ \E signal_result \in {"TTSCHED_SUCCESS", "TTSCHED_ERROR"} :
          ctx_runtime' = [ctx_runtime EXCEPT !.tt_node.signals = @ + 1,
                                             !.tt_node.prev_timer = ctx_runtime.tt_node.before,
                                             !.tt_node.pc = "idle"]
    /\ UNCHANGED <<sys, codec, threads>>

NextFire ==
    \/ clock_tick
    \/ handle_sigwait_bpf_event
    \/ timer_fires
    \/ check_sigwait
    \/ count_miss
    \/ send_signal_pidfd

\* the thread of the handler is scheduled whenever it can take a step
SpecFire ==
    InitFire /\ [][NextFire]_vars
             /\ WF_vars(check_sigwait \/ count_miss \/ send_signal_pidfd)

(***************************************************************************)
(* SpecStart: run() of the nodes, with sync enabled or not and with a      *)
(* hyperperiod known or not                                                *)
(***************************************************************************)
NextStart ==
    \/ \E n \in ClientNodes : run_sync(n)
    \/ \E n \in ClientNodes : run_nosync(n)

InitStart == InitFetched(BOOLEAN, BOOLEAN)

SpecStart == InitStart /\ [][NextStart]_vars

(***************************************************************************)
(* SpecDMiss: workloads are submitted and deadline misses are reported     *)
(***************************************************************************)
NextDMiss ==
    \/ \E request \in Requests : AddSchedInfo(request)
    \/ \E name \in CallerNames, task \in {TaskName(1), TaskName(2), Substr(LongName(2), 15)} :
          trpc_client_dmiss(name, task)

SpecDMiss == Init /\ [][NextDMiss]_vars

(***************************************************************************)
(* SpecTasks: a plan is installed, the nodes fetch it and set up the tasks *)
(* that are theirs                                                         *)
(***************************************************************************)
NextTasks ==
    \/ \E request \in {[workload_id |-> W1,
                          tasks |-> <<TaskKind(1, 1), TaskKind(2, 2), TaskKind(4, 3)>>],
                         [workload_id |-> W2, tasks |-> <<TaskKind(4, 1)>>]} :
          rpc.op = "none" /\ AddSchedInfo(request)
    \/ \E n \in ClientNodes : rpc.op = "AddSchedInfo" /\ get_sched_info(n)
    \/ \E n \in ClientNodes : init_task_list(n)

SpecTasks == Init /\ [][NextTasks]_vars

(***************************************************************************)
(* SpecDecode: a node is sent a plan of one task by a peer that does not   *)
(* cut the strings to the sizes of the node's arrays                       *)
(***************************************************************************)
\* the payload of a plan of one task with these strings
PayloadOf(workload_id, name, node_id) ==
    LET b1 == serialize_str(serialize_int64_t(new_serial_buf(SCHED_INFO_BUF_SIZE), 100000),
                            workload_id)
        b2 == serialize_int32_t(serialize_int32_t(serialize_str(b1, name), 50), SCHED_FIFO)
        b3 == serialize_int32_t(serialize_int32_t(b2, 100000), 0)
        b4 == serialize_int32_t(serialize_int32_t(b3, 50000), 100000)
        b5 == serialize_int32_t(serialize_int64_t(b4, 1), 0)
        b6 == serialize_int32_t(serialize_str(b5, node_id), 1)
    IN SubSeq(b6.data, 1, b6.pos)

\* strings that fit the node's arrays with their NUL, and strings one longer
Payloads ==
    {PayloadOf(workload_id, name, node_id) :
        workload_id \in {W1, Substr(WLong, TINFO_NODEID_MAX - 1), WLong},
        name \in {TaskName(1), Name15(1), LongName(1)},
        node_id \in {N1, N2}}

\* the strings deserialize_str has written decoding the payload, each with
\* the size of the array it was given
DecodedStrings(buf, bufsize) ==
    LET d == GetSchedInfoResult(buf, bufsize)
    IN {<<d.workload_id, TINFO_NODEID_MAX>>}
       \cup {<<d.sinfo.tasks[k].name, TINFO_NAME_MAX>> : k \in DOMAIN d.sinfo.tasks}
       \cup {<<d.sinfo.tasks[k].node_id, TINFO_NODEID_MAX>> : k \in DOMAIN d.sinfo.tasks}

\* get_sched_info of node n when the reply is this payload; where a string
\* has overrun its array the call may also crash
recv_sched_info(n, payload) ==
    /\ node[n].pc = "init_trpc"
    /\ rpc' = [NoRpc EXCEPT !.op = "SchedInfo", !.name = n, !.buf = payload,
                            !.bufsize = Len(payload)]
    /\ LET d == GetSchedInfoResult(payload, Len(payload))
       IN \/ /\ d.ret = "TT_SUCCESS"
             /\ node' = [node EXCEPT ![n] = [@ EXCEPT !.sched_info = d.sinfo, !.pc = "run"]]
          \/ /\ \E str \in DecodedStrings(payload, Len(payload)) : Len(str[1]) + 1 > str[2]
             /\ node' = node
    /\ UNCHANGED <<ext, tasks_, cpu_utilization_per_node_, sched_info_map_, sched_info_changed_,
                   hyperperiod_map_, sched_info_buf_, node_sync_map_, sync_callers, acked_ts,
                   clock>>

NextDecode == \E n \in ClientNodes : \E payload \in Payloads : recv_sched_info(n, payload)

SpecDecode == Init /\ [][NextDecode]_vars

(***************************************************************************)
(* SpecTrunc: the reply of SchedInfo reaches the node with its tail cut    *)
(***************************************************************************)
TruncRequests ==
    {[workload_id |-> W1, tasks |-> <<TaskKind(1, 1)>>],
     [workload_id |-> W1, tasks |-> <<TaskKind(2, 1)>>],
     [workload_id |-> W1, tasks |-> <<TaskKind(6, 1)>>],
     [workload_id |-> W2, tasks |-> <<TaskKind(1, 1), TaskKind(4, 2)>>]}

\* deserialize_str has written beyond the array it was given
StrOverflow(sinfo) ==
    \E k \in DOMAIN sinfo.tasks :
        \/ Len(sinfo.tasks[k].name) > TINFO_NAME_MAX - 1
        \/ Len(sinfo.tasks[k].node_id) > TINFO_NODEID_MAX - 1

\* get_sched_info given the first bufsize - cut bytes of the reply; where a
\* string has overrun its array the call may also crash
get_sched_info_cut(n, cut) ==
    /\ node[n].pc = "init_trpc"
    /\ \E r \in {SchedInfoCallback(n)} :
          /\ cut \in 0..r.bufsize
          /\ sched_info_buf_' = r.buf_
          /\ sched_info_changed_' = FALSE
          /\ rpc' = [NoRpc EXCEPT !.op = "SchedInfo", !.name = n,
                                  !.buf = SubSeq(r.data, 1, r.bufsize - cut),
                                  !.bufsize = r.bufsize - cut]
    /\ \E d \in {GetSchedInfoResult(rpc'.buf, rpc'.bufsize)} :
          \/ /\ d.ret = "TT_SUCCESS"
             /\ node' = [node EXCEPT ![n] = [@ EXCEPT !.sched_info = d.sinfo, !.pc = "run"]]
          \/ /\ d.ret # "TT_SUCCESS" \/ StrOverflow(d.sinfo)
             /\ node' = node
    /\ UNCHANGED <<ext, tasks_, cpu_utilization_per_node_, sched_info_map_, hyperperiod_map_,
                   node_sync_map_, sync_callers, acked_ts, clock>>

SubmitTrunc ==
    /\ rpc = NoRpc
    /\ \E request \in TruncRequests : AddSchedInfo(request)

FetchCut ==
    /\ rpc.op = "AddSchedInfo"
    /\ \E cut \in 0..SCHED_INFO_BUF_SIZE : get_sched_info_cut(N1, cut)

NextTrunc == SubmitTrunc \/ FetchCut

SpecTrunc == Init /\ [][NextTrunc]_vars

(***************************************************************************)
(* SpecCodec: fields are written to a fresh buffer and read back from its  *)
(* tail by the consumer                                                    *)
(***************************************************************************)
FieldTypes == {"int32_t", "int64_t", "str"}

FieldValues(type) ==
    IF type = "str" THEN {EmptyStr, N1, Name15(1)} ELSE {0, -1, 100000}

\* the sizes new_serial_buf is called with
CodecBufSizes == {0, 4, SCHED_INFO_BUF_SIZE}

InitCodec ==
    /\ SysInit
    /\ \E size \in CodecBufSizes :
          codec = [phase |-> "encode", b |-> new_serial_buf(size), fields |-> << >>,
                   ok |-> TRUE]
    /\ ctx_runtime = NoRuntime
    /\ threads = NoThreads

\* serialize_<type>(b, val)
codec_serialize(type, val) ==
    /\ codec.phase = "encode"
    /\ Len(codec.fields) < MaxFields
    /\ codec' = [codec EXCEPT !.b = serialize_field(@, type, val),
                              !.fields = Append(@, [type |-> type, val |-> val])]
    /\ UNCHANGED <<sys, ctx_runtime, threads>>

\* the consumer wraps the pos bytes it was sent: make_serial_buf(data, pos)
codec_make_serial_buf ==
    /\ codec.phase = "encode"
    /\ codec' = [codec EXCEPT !.phase = "decode",
                              !.b = make_serial_buf(SubSeq(codec.b.data, 1, codec.b.pos),
                                                    codec.b.pos)]
    /\ UNCHANGED <<sys, ctx_runtime, threads>>

\* deserialize_<type>(b, &val) of the field written last among those left
codec_deserialize ==
    /\ codec.phase = "decode"
    /\ codec.fields # << >>
    /\ \E r \in {deserialize_field(codec.b, codec.fields[Len(codec.fields)].type)} :
          codec' = [codec EXCEPT !.b = r.b,
                                 !.fields = SubSeq(@, 1, Len(@) - 1),
                                 !.ok = @ /\ r.ok]
    /\ UNCHANGED <<sys, ctx_runtime, threads>>

NextCodec ==
    \/ \E type \in FieldTypes : \E val \in FieldValues(type) : codec_serialize(type, val)
    \/ codec_make_serial_buf
    \/ codec_deserialize

SpecCodec == InitCodec /\ [][NextCodec]_vars

(***************************************************************************)
(* SpecRun: the timers of a node are armed; every expiry runs its handler  *)
(* in a thread of its own (SIGEV_THREAD), the main thread sits in          *)
(* epoll_loop until a signal asks for shutdown and then tears down         *)
(***************************************************************************)
InitRun ==
    /\ SysInit
    /\ codec = NoCodec
    /\ threads = NoThreads
    /\ ctx_runtime = [NoRuntime EXCEPT !.main = "loop_cond",
                                   !.sigwait_rb_thread = "polling",
                                   !.timer = [t \in RunTasks |-> "armed"],
                                   !.hyperperiod_timer = "armed"]

\* the timer of task t expires: a thread enters timer_expired_handler
timer_expired(t) ==
    /\ ctx_runtime.timer[t] = "armed"
    /\ ctx_runtime.handler[t].pc = "idle"
    /\ ctx_runtime.fires < MaxFires
    /\ ctx_runtime' = [ctx_runtime EXCEPT !.handler[t].pc = "check", !.fires = @ + 1]
    /\ UNCHANGED <<sys, codec, threads>>

\* timer_expired_handler, the deadline check: one of the three miss branches
\* is taken, or none
check_deadline(t) ==
    /\ ctx_runtime.handler[t].pc = "check"
    /\ \E miss \in BOOLEAN :
          ctx_runtime' = [ctx_runtime EXCEPT !.handler[t].pc =
                                        IF miss THEN "load_total" ELSE "send_signal"]
    /\ UNCHANGED <<sys, codec, threads>>

\* ctx->hp_manager.total_deadline_misses++, the read
load_total(t) ==
    /\ ctx_runtime.handler[t].pc = "load_total"
    /\ ctx_runtime' = [ctx_runtime EXCEPT !.handler[t] =
                      [pc |-> "store_total", reg |-> ctx_runtime.hp_manager.total_deadline_misses]]
    /\ UNCHANGED <<sys, codec, threads>>

\* ctx->hp_manager.total_deadline_misses++, the write
store_total(t) ==
    /\ ctx_runtime.handler[t].pc = "store_total"
    /\ ctx_runtime' = [ctx_runtime EXCEPT !.hp_manager.total_deadline_misses =
                                        ctx_runtime.handler[t].reg + 1,
                                  !.handler[t].pc = "load_cycle"]
    /\ UNCHANGED <<sys, codec, threads>>

\* ctx->hp_manager.cycle_deadline_misses++, the read
load_cycle(t) ==
    /\ ctx_runtime.handler[t].pc = "load_cycle"
    /\ ctx_runtime' = [ctx_runtime EXCEPT !.handler[t] =
                      [pc |-> "store_cycle", reg |-> ctx_runtime.hp_manager.cycle_deadline_misses]]
    /\ UNCHANGED <<sys, codec, threads>>

\* ctx->hp_manager.cycle_deadline_misses++, the write
store_cycle(t) ==
    /\ ctx_runtime.handler[t].pc = "store_cycle"
    /\ ctx_runtime' = [ctx_runtime EXCEPT !.hp_manager.cycle_deadline_misses =
                                        ctx_runtime.handler[t].reg + 1,
                                  !.handler[t].pc = "report_deadline_miss"]
    /\ UNCHANGED <<sys, codec, threads>>

\* report_deadline_miss: the handler thread enters trpc_client_dmiss on
\* ctx->comm.dbus, the one connection of the node
report_deadline_miss(t) ==
    /\ ctx_runtime.handler[t].pc = "report_deadline_miss"
    /\ ctx_runtime' = [ctx_runtime EXCEPT !.handler[t].pc = "trpc_client_dmiss"]
    /\ UNCHANGED <<sys, codec, threads>>

\* the DMiss call has been answered or has failed: trpc_client_dmiss returns
report_deadline_miss_return(t) ==
    /\ ctx_runtime.handler[t].pc = "trpc_client_dmiss"
    /\ ctx_runtime' = [ctx_runtime EXCEPT !.handler[t].pc = "send_signal"]
    /\ UNCHANGED <<sys, codec, threads>>

\* send_signal_pidfd and tt_node->prev_timer = before: the handler returns
send_signal(t) ==
    /\ ctx_runtime.handler[t].pc = "send_signal"
    /\ ctx_runtime' = [ctx_runtime EXCEPT !.handler[t] = [pc |-> "idle", reg |-> 0]]
    /\ UNCHANGED <<sys, codec, threads>>

\* hyperperiod_cycle_handler, in a thread of its own; cycle_sum adds up the
\* values of cycle_deadline_misses it has overwritten
hyperperiod_cycle_handler ==
    /\ ctx_runtime.hyperperiod_timer = "armed"
    /\ ctx_runtime.hp_manager.completed_cycles < MaxCycles
    /\ ctx_runtime' = [ctx_runtime EXCEPT !.hp_manager.completed_cycles = @ + 1,
                                  !.hp_manager.cycle_deadline_misses = 0,
                                  !.cycle_sum = @ + ctx_runtime.hp_manager.cycle_deadline_misses]
    /\ UNCHANGED <<sys, codec, threads>>

\* signal_handler for SIGINT / SIGTERM, run by the main thread: it sets the
\* flag, and an epoll_wait that is blocked returns EINTR and the loop continues
signal_handler ==
    /\ ctx_runtime.main \in {"loop_cond", "epoll_wait", "blocked"}
    /\ ~ctx_runtime.shutdown_requested
    /\ ctx_runtime' = [ctx_runtime EXCEPT !.shutdown_requested = TRUE,
                                          !.main = IF @ = "blocked" THEN "loop_cond" ELSE @]
    /\ UNCHANGED <<sys, codec, threads>>

\* epoll_loop, while (!ctx->runtime.shutdown_requested): the loop goes on to
\* call epoll_wait, or ends and main goes on to cleanup_context
epoll_loop_cond ==
    /\ ctx_runtime.main = "loop_cond"
    /\ ctx_runtime' = [ctx_runtime EXCEPT !.main = IF ctx_runtime.shutdown_requested
                                                   THEN "cleanup_tasks" ELSE "epoll_wait"]
    /\ UNCHANGED <<sys, codec, threads>>

\* epoll_wait(efd, events, 1, -1): it returns one readable pidfd (one of the
\* epoll set whose task has terminated), which the loop takes out of the
\* epoll set, or blocks without a timeout
epoll_wait ==
    /\ ctx_runtime.main \in {"epoll_wait", "blocked"}
    /\ IF ctx_runtime.exited \cap ctx_runtime.epoll_set = {}
       THEN /\ ctx_runtime.main = "epoll_wait"
            /\ ctx_runtime' = [ctx_runtime EXCEPT !.main = "blocked"]
       ELSE \E t \in ctx_runtime.exited \cap ctx_runtime.epoll_set :
               ctx_runtime' = [ctx_runtime EXCEPT !.main = "loop_cond",
                                                  !.epoll_set = @ \ {t}]
    /\ UNCHANGED <<sys, codec, threads>>

\* the process of task t terminates
task_exit(t) ==
    /\ ctx_runtime.main \in {"loop_cond", "epoll_wait", "blocked"}
    /\ t \notin ctx_runtime.exited
    /\ ctx_runtime' = [ctx_runtime EXCEPT !.exited = @ \cup {t}]
    /\ UNCHANGED <<sys, codec, threads>>

\* the entries still on tt_list
tt_list == {t \in RunTasks : ~ctx_runtime.freed[t]}

\* cleanup_tasks, one round of the loop: bpf_del_pid and close of the pidfd
\* of the first entry, then timer_delete, LIST_REMOVE and free of it; when
\* the list is empty, the rest of cleanup_context: cleanup_communication,
\* cleanup_hyperperiod, and cleanup_bpf_trace, whose bpf_off sets need_exit
\* and joins the thread that polls the ring buffer
cleanup_tasks ==
    /\ ctx_runtime.main = "cleanup_tasks"
    /\ IF tt_list # {}
       THEN LET tt_p == CHOOSE t \in tt_list : \A u \in tt_list : t <= u
            IN IF ctx_runtime.pidfd[tt_p] = "open"
               THEN ctx_runtime' = [ctx_runtime EXCEPT !.pidfd[tt_p] = "closed"]
               ELSE ctx_runtime' = [ctx_runtime EXCEPT !.timer[tt_p] = "deleted",
                                                       !.freed[tt_p] = TRUE]
       ELSE ctx_runtime' = [ctx_runtime EXCEPT !.main = "done", !.hyperperiod_timer = "deleted",
                                               !.sigwait_rb_thread = "joined"]
    /\ UNCHANGED <<sys, codec, threads>>

NextRun ==
    \/ \E t \in RunTasks : timer_expired(t)
    \/ \E t \in RunTasks : check_deadline(t)
    \/ \E t \in RunTasks : load_total(t)
    \/ \E t \in RunTasks : store_total(t)
    \/ \E t \in RunTasks : load_cycle(t)
    \/ \E t \in RunTasks : store_cycle(t)
    \/ \E t \in RunTasks : report_deadline_miss(t)
    \/ \E t \in RunTasks : report_deadline_miss_return(t)
    \/ \E t \in RunTasks : send_signal(t)
    \/ hyperperiod_cycle_handler
    \/ signal_handler
    \/ epoll_loop_cond
    \/ epoll_wait
    \/ cleanup_tasks

SpecRun == InitRun /\ [][NextRun]_vars

\* SpecLoop: task processes may also terminate, and the main thread is
\* scheduled whenever it can take a step
NextLoop == NextRun \/ \E t \in RunTasks : task_exit(t)

SpecLoop ==
    InitRun /\ [][NextLoop]_vars
            /\ WF_vars(epoll_loop_cond \/ epoll_wait \/ cleanup_tasks)

(***************************************************************************)
(* The start barrier (SpecSync)                                            *)
(***************************************************************************)
\* the nodes of the plan a Sync call finds
PlanNodes ==
    IF DOMAIN sched_info_map_ = {} THEN {}
    ELSE DOMAIN sched_info_map_[MapBegin(sched_info_map_)]

\* C1 as stated: a Sync call is answered ack=1 exactly when every node the
\* barrier map was created for has called Sync since then, whoever the
\* caller is; a caller the map does not know is answered ack=0 all the same
C1_AckIffAllCalled ==
    rpc.op = "Sync" =>
        (rpc.ack = 1 <=> (/\ DOMAIN node_sync_map_ # {}
                          /\ DOMAIN node_sync_map_ \subseteq sync_callers))

\* C1, amended: a Sync call is answered ack=1 exactly when the caller is a
\* node of the barrier map and every node of the barrier map has called Sync
\* since the map was created, this call included; every other call is
\* answered ack=0
C1_AckIffKnownAndAllCalled ==
    rpc.op = "Sync" =>
        (rpc.ack = 1 <=> (/\ rpc.name \in DOMAIN node_sync_map_
                          /\ DOMAIN node_sync_map_ \subseteq sync_callers))

\* the second of two nodes has called and is let through
C1_Witness ==
    /\ rpc.op = "Sync"
    /\ rpc.ack = 1
    /\ DOMAIN node_sync_map_ = {N1, N2}
    /\ sync_callers = {N1, N2}

\* C2: with sync enabled the nodes that have passed the barrier have armed
\* their timers at one common start instant
C2_CommonStartInstant ==
    \A a, b \in ClientNodes :
        (/\ node[a].pc = "epoll_loop" /\ node[a].enable_sync
         /\ node[b].pc = "epoll_loop" /\ node[b].enable_sync
         /\ node[a].sched_info.workload_id = node[b].sched_info.workload_id)
        => node[a].it_value = node[b].it_value

\* C3 as stated: a Sync call of a node that is not in the plan is answered
\* ack=0 and leaves the barrier map as it was, the first call ever included
C3_UnknownLeavesMap ==
    [][\A name \in CallerNames :
          (name \notin PlanNodes /\ \E now \in ClockGettime : ServeSync(name, now))
          => (rpc'.ack = 0 /\ node_sync_map_' = node_sync_map_)]_vars

\* the nodes the barrier knows when a Sync call arrives: those of the map,
\* or those of the plan where the call has yet to create the map
BarrierNodes == IF DOMAIN node_sync_map_ # {} THEN DOMAIN node_sync_map_ ELSE PlanNodes

\* C3, amended: a Sync call of a node that the barrier does not know is
\* answered ack=0; it leaves an existing map as it was, and where there was
\* no map it leaves the map the call has created from the plan, every node
\* of the plan not ready
C3_UnknownMarksNothing ==
    [][\A name \in CallerNames :
          (name \notin BarrierNodes /\ \E now \in ClockGettime : ServeSync(name, now))
          => /\ rpc'.ack = 0
             /\ IF DOMAIN node_sync_map_ # {}
                THEN node_sync_map_' = node_sync_map_
                ELSE node_sync_map_' = [n \in PlanNodes |-> FALSE]]_vars

\* the first Sync call ever comes from an unknown node and has created the map
C3_Witness ==
    /\ rpc.op = "Sync"
    /\ rpc.name = N9
    /\ rpc.ack = 0
    /\ sync_callers = {N9}
    /\ node_sync_map_ = [n \in {N1, N2} |-> FALSE]

RECURSIVE SumUtilization(_)
SumUtilization(tasks) ==
    IF tasks = << >> THEN 0
    ELSE TaskUtilization(Head(tasks)) + SumUtilization(Tail(tasks))

\* the tasks of tasks_ that the scheduler has put on a CPU of a node
TasksOn(node_id, cpu_id) ==
    SelectSeq(tasks_, LAMBDA t : t.assigned_node = node_id /\ t.assigned_cpu = cpu_id)

\* C5: after scheduling, the shares runtime/period of the tasks assigned to
\* one CPU of one node add up to no more than 0.90
C5_CpuWithinCap ==
    \A node_id \in DOMAIN NodeInventory :
        \A cpu_id \in SeqToSet(NodeInventory[node_id]) :
            SumUtilization(TasksOn(node_id, cpu_id)) <= CPU_UTILIZATION_THRESHOLD

\* two tasks share a CPU and a third had to go to another one
C5_Witness ==
    /\ rpc.op = "AddSchedInfo"
    /\ \E cpu_id \in SeqToSet(NodeInventory[N1]) : Len(TasksOn(N1, cpu_id)) = 2
    /\ \E cpu_id \in SeqToSet(NodeInventory[N1]) : Len(TasksOn(N1, cpu_id)) = 1

\* the tasks of the plan, node by node in the order they are emitted
RECURSIVE FlattenNodes(_, _)
FlattenNodes(node_sched_info, node_ids) ==
    IF node_ids = << >> THEN << >>
    ELSE node_sched_info[Head(node_ids)] \o FlattenNodes(node_sched_info, Tail(node_ids))

EmittedTasks ==
    IF DOMAIN sched_info_map_ = {} THEN << >>
    ELSE LET node_sched_info == sched_info_map_[MapBegin(sched_info_map_)]
         IN FlattenNodes(node_sched_info, SortedKeys(DOMAIN node_sched_info))

\* C6: a task whose own share runtime/period exceeds 0.90 is put on no CPU
\* and is in the plan of no node
C6_OverCapNotInPlan ==
    \A i \in DOMAIN tasks_ :
        TaskUtilization(tasks_[i]) > CPU_UTILIZATION_THRESHOLD
        => /\ tasks_[i].assigned_cpu = -1
           /\ \A k \in DOMAIN EmittedTasks :
                 EmittedTasks[k].task_name # Strncpy(tasks_[i].name, TASK_NAME_SIZE)

\* C7: every task of the emitted plan sits on one CPU of the list of the node
\* it is emitted for, so a task no CPU could take is not in the plan
C7_PlanTasksOnNodeCpu ==
    \A k \in DOMAIN EmittedTasks :
        /\ EmittedTasks[k].assigned_node \in DOMAIN NodeInventory
        /\ EmittedTasks[k].cpu_affinity \in SeqToSet(NodeInventory[EmittedTasks[k].assigned_node])

\* C8 as stated: what the node decodes is the plan, task by task in the same
\* order with every field equal, under the same workload id and hyperperiod
C8_RoundTripEqual ==
    node[N1].pc = "run" =>
        LET sinfo == node[N1].sched_info
            workload_id == MapBegin(sched_info_map_)
        IN /\ sinfo.nr_tasks = Len(EmittedTasks)
           /\ Len(sinfo.tasks) = Len(EmittedTasks)
           /\ \A k \in DOMAIN EmittedTasks :
                 LET t == EmittedTasks[k]
                     d == sinfo.tasks[k]
                 IN /\ d.name = t.task_name
                    /\ d.sched_priority = t.sched_priority
                    /\ d.sched_policy = t.sched_policy
                    /\ d.period * kNsToUs = t.period_ns
                    /\ d.release_time = t.release_time
                    /\ d.runtime * kNsToUs = t.runtime_ns
                    /\ d.deadline * kNsToUs = t.deadline_ns
                    /\ d.cpu_affinity = t.cpu_affinity
                    /\ d.allowable_deadline_misses = t.max_dmiss
                    /\ d.node_id = t.assigned_node
           /\ sinfo.workload_id = workload_id
           /\ sinfo.hyperperiod_us = GetHyperperiodInfo(hyperperiod_map_, workload_id)

\* C8, amended: what the node decodes is the plan, task by task in the same
\* order, with the first 15 bytes of each task name, the first 63 bytes of the
\* node id and of the workload id, and every other field and the hyperperiod
\* equal
C8_RoundTripUpToNameLimits ==
    node[N1].pc = "run" =>
        LET sinfo == node[N1].sched_info
            workload_id == MapBegin(sched_info_map_)
        IN /\ sinfo.nr_tasks = Len(EmittedTasks)
           /\ Len(sinfo.tasks) = Len(EmittedTasks)
           /\ \A k \in DOMAIN EmittedTasks :
                 LET t == EmittedTasks[k]
                     d == sinfo.tasks[k]
                 IN /\ d.name = Substr(t.task_name, TINFO_NAME_MAX - 1)
                    /\ d.sched_priority = t.sched_priority
                    /\ d.sched_policy = t.sched_policy
                    /\ d.period * kNsToUs = t.period_ns
                    /\ d.release_time = t.release_time
                    /\ d.runtime * kNsToUs = t.runtime_ns
                    /\ d.deadline * kNsToUs = t.deadline_ns
                    /\ d.cpu_affinity = t.cpu_affinity
                    /\ d.allowable_deadline_misses = t.max_dmiss
                    /\ d.node_id = Substr(t.assigned_node, TINFO_NODEID_MAX - 1)
           /\ sinfo.workload_id = Substr(workload_id, TINFO_NODEID_MAX - 1)
           /\ sinfo.hyperperiod_us = GetHyperperiodInfo(hyperperiod_map_, workload_id)

\* the node has decoded a plan of three tasks on two nodes, one of them with
\* a name longer than the node keeps
C8_Witness ==
    /\ node[N1].pc = "run"
    /\ Len(node[N1].sched_info.tasks) = 3
    /\ {EmittedTasks[k].assigned_node : k \in DOMAIN EmittedTasks} = {N1, N2}
    /\ \E k \in DOMAIN EmittedTasks : Len(EmittedTasks[k].task_name) > TINFO_NAME_MAX - 1

(***************************************************************************)
(* The payload handed out (Spec)                                           *)
(***************************************************************************)
\* C9: of two SchedInfo calls with no AddSchedInfo between them the second
\* returns the bytes the first returned, whatever node id either passes
C9_SamePayloadUntilNewPlan ==
    [][\A name \in CallerNames :
          (rpc.op = "SchedInfo" /\ ServeSchedInfo(name))
          => (rpc'.buf = rpc.buf /\ rpc'.bufsize = rpc.bufsize)]_vars

\* node n1 has fetched the plan and a caller under another id has just been
\* given the same bytes
C9_Witness ==
    /\ rpc.op = "SchedInfo"
    /\ rpc.name = N9
    /\ rpc.bufsize > 0
    /\ node[N1].pc = "run"
    /\ node[N1].sched_info = GetSchedInfoResult(rpc.buf, rpc.bufsize).sinfo

\* the bytes that serialize the plan installed now
PlanPayload ==
    LET b == SerializeSchedInfo(sched_info_map_,
                 GetHyperperiodInfo(hyperperiod_map_, MapBegin(sched_info_map_)))
    IN SubSeq(b.data, 1, b.pos)

ReplySchedInfo == GetSchedInfoResult(rpc.buf, rpc.bufsize).sinfo

\* C11 as stated: every task of the payload returned to node N has assigned
\* node id N
C11_OnlyCallersSlice ==
    (rpc.op = "SchedInfo" /\ rpc.bufsize > 0)
    => \A k \in DOMAIN ReplySchedInfo.tasks : ReplySchedInfo.tasks[k].node_id = rpc.name

\* C11, amended: the payload returned to node N carries the tasks of every
\* node of the plan, each under its own assigned node id, with the workload id
\* and the hyperperiod of the plan
C11_PayloadIsWholePlan ==
    (rpc.op = "SchedInfo" /\ rpc.bufsize > 0)
    => LET sinfo == ReplySchedInfo
           workload_id == MapBegin(sched_info_map_)
       IN /\ Len(sinfo.tasks) = Len(EmittedTasks)
          /\ \A k \in DOMAIN EmittedTasks :
                sinfo.tasks[k].node_id
                    = Substr(EmittedTasks[k].assigned_node, TINFO_NODEID_MAX - 1)
          /\ sinfo.workload_id = Substr(workload_id, TINFO_NODEID_MAX - 1)
          /\ sinfo.hyperperiod_us = GetHyperperiodInfo(hyperperiod_map_, workload_id)

\* node n1 has just been given a payload that holds a task of node n2
C11_Witness ==
    /\ rpc.op = "SchedInfo"
    /\ rpc.name = N1
    /\ rpc.bufsize > 0
    /\ \E k \in DOMAIN ReplySchedInfo.tasks : ReplySchedInfo.tasks[k].node_id = N2
    /\ \E k \in DOMAIN ReplySchedInfo.tasks : ReplySchedInfo.tasks[k].node_id = N1

\* C12: a SchedInfo call made while no plan is installed returns a byte array
\* of length zero
C12_NoPlanEmptyReply ==
    (rpc.op = "SchedInfo" /\ DOMAIN sched_info_map_ = {})
    => (rpc.bufsize = 0 /\ rpc.buf = << >>)

\* SchedInfo has answered with no bytes while no plan is installed and the
\* buffer of the plan installed before is still held
C12_Witness ==
    /\ rpc.op = "SchedInfo"
    /\ DOMAIN sched_info_map_ = {}
    /\ sched_info_buf_.alloc
    /\ rpc.bufsize = 0

(***************************************************************************)
(* The decoder given a payload cut short (SpecTrunc)                       *)
(***************************************************************************)
\* C13: when one or more bytes are missing from the tail of the payload the
\* node does not come out of get_sched_info with a decoded plan
C13_TruncatedPayloadFails ==
    (rpc.op = "SchedInfo" /\ rpc.bufsize < sched_info_buf_.pos)
    => node[N1].pc = "init_trpc"

(***************************************************************************)
(* The codec (SpecCodec)                                                   *)
(***************************************************************************)
\* the bytes one field takes in the buffer
EncodedSize(field) ==
    IF field.type = "str" THEN Len(field.val) + 4
    ELSE IF field.type = "int64_t" THEN 8
    ELSE 4

RECURSIVE SumEncodedSize(_)
SumEncodedSize(fields) ==
    IF fields = << >> THEN 0
    ELSE EncodedSize(Head(fields)) + SumEncodedSize(Tail(fields))

\* C14: while fields are written pos is the sum of the sizes of the fields
\* written; while they are read back in mirror order every read succeeds and
\* pos is the sum of the sizes of the fields not yet read, so it has moved
\* back by the sizes of the fields read and is 0 when all are read
C14_PosIsSumOfSizes ==
    codec.phase \in {"encode", "decode"}
    => /\ codec.ok
       /\ codec.b.pos = SumEncodedSize(codec.fields)

\* an int32, an int64 and a 15 byte string have been written and read back
C14_Witness ==
    /\ codec.phase = "decode"
    /\ codec.fields = << >>
    /\ codec.b.pos = 0
    /\ Len(codec.b.data) = 4 + 8 + (15 + 4)

(***************************************************************************)
(* The run time of a node (SpecRun)                                        *)
(***************************************************************************)
\* C15: whenever no handler is between its two increments,
\* total_deadline_misses is the sum of the values cycle_deadline_misses had at
\* the resets plus its value now
C15_TotalIsSumOfCycles ==
    (\A t \in RunTasks : ctx_runtime.handler[t].pc \in {"idle", "check", "report_deadline_miss",
                                                         "trpc_client_dmiss", "send_signal"})
    => ctx_runtime.hp_manager.total_deadline_misses
          = ctx_runtime.cycle_sum + ctx_runtime.hp_manager.cycle_deadline_misses

\* the hyperperiod_us a SchedInfo payload carries: its first field, read last
PayloadHyperperiod == deserialize_int64_t(make_serial_buf(SubSeq(rpc.buf, 1, 8), 8)).val

\* the periods, in microseconds, of the tasks of the installed plan
PlanPeriods == {EmittedTasks[k].period_ns \div kNsToUs : k \in DOMAIN EmittedTasks}

C17_SamePlanBytes ==
    [][(rpc.op = "AddSchedInfo" /\ sched_info_buf_.alloc /\ rpc'.op = "SchedInfo")
       => /\ rpc'.bufsize = sched_info_buf_.pos
          /\ rpc'.buf = SubSeq(sched_info_buf_.data, 1, sched_info_buf_.pos)]_vars

\* C18: every step of node startup is one of at most 300 attempts, each after
\* as many sleeps of 1 s as attempts have failed.  The attempt ends startup
\* with success exactly when the connection is made and SchedInfo yields a non
\* empty payload that decodes; otherwise (an empty reply included) the session
\* is dropped and the attempt counts as failed, and the 300th failed attempt
\* ends startup with the Network error
C18_BoundedStartup ==
    [][\A n \in ClientNodes :
          node'[n] # node[n]
          => /\ node[n].pc = "init_trpc"
             /\ node[n].retry_count < 300
             /\ node[n].slept_us = node[n].retry_count * 1000000
             /\ IF /\ node'[n].connected
                   /\ rpc'.op = "SchedInfo"
                   /\ rpc'.name = n
                   /\ rpc'.bufsize > 0
                   /\ deserialize_sched_info(make_serial_buf(rpc'.buf, rpc'.bufsize)).ret
                         = "TT_SUCCESS"
                THEN /\ node'[n].pc = "run"
                     /\ node'[n].dbus
                     /\ node'[n].retry_count = node[n].retry_count
                ELSE /\ node'[n].retry_count = node[n].retry_count + 1
                     /\ ~node'[n].dbus
                     /\ node'[n].pc = IF node'[n].retry_count = 300
                                      THEN "TT_ERROR_NETWORK" ELSE "init_trpc"]_vars

\* startup has given up after 300 attempts, the last of which had a connection
\* and was answered with an empty reply
C18_Witness ==
    /\ node[N1].pc = "TT_ERROR_NETWORK"
    /\ node[N1].retry_count = 300
    /\ node[N1].slept_us = 300000000
    /\ node[N1].connected
    /\ rpc.op = "SchedInfo"
    /\ rpc.name = N1
    /\ rpc.bufsize = 0

\* an AddSchedInfo for a workload id other than the installed one is answered
OtherWorkloadSubmitted ==
    /\ DOMAIN sched_info_map_ # {}
    /\ rpc'.op = "AddSchedInfo"
    /\ rpc'.name # MapBegin(sched_info_map_)

C21_SignalEndsLoop ==
    ctx_runtime.shutdown_requested ~> ctx_runtime.main \in {"cleanup_tasks", "done"}

\* C22: with sync enabled, a node that the installed plan names and that keeps
\* polling Sync is eventually answered ack=1 and stops polling, and no node has
\* armed its timers before it was answered ack=1
C22_PollingNodesStart ==
    /\ [](\A n \in ClientNodes :
             node[n].pc = "epoll_loop"
             => acked_ts.valid /\ TsLeq(node[n].it_value, acked_ts.ts))
    /\ \A n \in ClientNodes : <>[](n \in PlanNodes) => <>(node[n].pc = "epoll_loop")

\* C23: a SchedInfo or DMiss handler that goes through the task records of
\* its plan does so while they are allocated and AddSchedInfo is not
\* replacing the plan
C23_HandlersReadLivePlan ==
    (/\ threads.event_thread_ = "callback"
     /\ threads.handler \in {"SchedInfoCallback", "DMissCallback"}
     /\ threads.map_copy # 0)
    => /\ threads.grpc = "idle"
       /\ threads.map_copy = threads.tasks_array

\* C24: once DBusServer::Start has returned true and until Stop is called,
\* the event loop thread is running
C24_LoopRunsOnceStarted ==
    threads.main = "started"
    => threads.event_thread_ \in {"while", "sd_event_run", "callback"}

\* what the three rules make of event e at a fire at t_fire, when the instant
\* stored at the fire before was t_event_prev
Classified(e, t_fire, t_event_prev) ==
    \/ ~e.enter
    \/ e.timestamp > t_fire
    \/ e.timestamp = t_event_prev

\* C25: when the check of a fire is over, for a task that had an event at the
\* fire, the handler has counted one miss if the last event is one of still
\* running, late return or stuck in kernel, and none otherwise; the last
\* event is one of those that were the last one while the handler ran
C25_MissIffClassified ==
    LET tt_node == ctx_runtime.tt_node
    IN (tt_node.pc = "send_signal" /\ NoEvent \notin tt_node.window)
       => /\ tt_node.misses <= 1
          /\ \E e \in tt_node.window :
                (tt_node.misses = 1) <=> Classified(e, tt_node.before, tt_node.prev)

\* C27: the fields of the last event that the handler reads during one check
\* are those of one event
C27_PairOfOneEvent == Cardinality(ctx_runtime.tt_node.reads) <= 1

\* C26: when the handler has returned, it has sent one signal and prev_timer
\* is the instant of the fire; and every fire leads to that, also the one
\* whose report of a miss fails
C26_FireSendsOneSignal ==
    LET tt_node == ctx_runtime.tt_node
        Returned == /\ tt_node.pc = "idle"
                    /\ tt_node.signals = 1
                    /\ tt_node.prev_timer = tt_node.before
    IN /\ [](tt_node.pc = "idle" /\ tt_node.before # 0 => Returned)
       /\ (tt_node.pc # "idle") ~> Returned

C26_Witness ==
    /\ ctx_runtime.tt_node.pc = "idle"
    /\ ctx_runtime.tt_node.dmiss = "TT_ERROR_NETWORK"
    /\ ctx_runtime.tt_node.signals = 1
    /\ ctx_runtime.tt_node.prev_timer = ctx_runtime.tt_node.before

\* C28: when teardown has deleted a timer or freed a record, the thread of
\* the tracing observer has been stopped and joined
C28_ObserverJoinedFirst ==
    (\/ \E t \in RunTasks : ctx_runtime.timer[t] = "deleted" \/ ctx_runtime.freed[t]
     \/ ctx_runtime.hyperperiod_timer = "deleted")
    => ctx_runtime.sigwait_rb_thread = "joined"

\* the microseconds of a timespec
TsUs(ts) == ts.tv_sec * USEC_PER_SEC + ts.tv_nsec \div NSEC_PER_USEC

\* the hyperperiod timer of a node in epoll_loop: none when hyperperiod_us is
\* zero, and otherwise one with interval hyperperiod_us whose first
\* expiration is offset_us after that of the task timers
SupervisorTimer(n, offset_us) ==
    LET timer == node[n].hyperperiod_timer
        hyperperiod_us == node[n].sched_info.hyperperiod_us
    IN node[n].pc = "epoll_loop" =>
          IF hyperperiod_us = 0 THEN ~timer.created
          ELSE /\ timer.created
               /\ timer_settime(timer.it_value)
               /\ TsUs(timer.it_value) = TsUs(node[n].it_value) + offset_us
               /\ timer.it_value.tv_nsec % NSEC_PER_USEC = node[n].it_value.tv_nsec % NSEC_PER_USEC
               /\ timer.it_interval.tv_nsec < NSEC_PER_SEC
               /\ TsUs(timer.it_interval) = hyperperiod_us

\* C29, as claimed: the hyperperiod timer first expires at the start instant
\* of the task timers, with interval hyperperiod_us; there is none when
\* hyperperiod_us is zero
C29_FirstExpiryAtStart == \A n \in ClientNodes : SupervisorTimer(n, 0)

\* C29, amended: the hyperperiod timer first expires one hyperperiod after
\* the start instant of the task timers, with interval hyperperiod_us; there
\* is none when hyperperiod_us is zero
C29_FirstExpiryAfterOneHyperperiod ==
    \A n \in ClientNodes : SupervisorTimer(n, node[n].sched_info.hyperperiod_us)

\* a node with a hyperperiod timer whose first expiration needed the carry
\* into the seconds
C29_Witness ==
    \E n \in ClientNodes :
        /\ node[n].pc = "epoll_loop"
        /\ node[n].sched_info.hyperperiod_us # 0
        /\ node[n].hyperperiod_timer.created
        /\ node[n].hyperperiod_timer.it_value.tv_nsec < node[n].it_value.tv_nsec

\* C30: with sync disabled, run arms the task timers, at a start instant
\* that is a normalized timestamp, and that instant is 5 ms after the
\* reading of the clock
C30_StartIsNowPlus5ms ==
    /\ [](\A n \in ClientNodes :
             (~node[n].enable_sync /\ node[n].pc \notin {"init_trpc", "run"})
             => /\ node[n].pc = "epoll_loop"
                /\ 0 <= node[n].it_value.tv_nsec
                /\ node[n].it_value.tv_nsec < NSEC_PER_SEC)
    /\ [][\A n \in ClientNodes :
             (~node[n].enable_sync /\ node[n].pc = "run" /\ node'[n].pc # "run")
             => TsUs(node'[n].it_value) = TsUs(clock') + TT_TIMER_INCREMENT_NS \div NSEC_PER_USEC]_vars

\* the load of a CPU when task i is placed: the shares of the tasks before i
\* that were put on it
LoadBefore(i, node_id, cpu_id) ==
    SumUtilization(SelectSeq(SubSeq(tasks_, 1, i - 1),
                             LAMBDA t : t.assigned_node = node_id /\ t.assigned_cpu = cpu_id))

\* the CPUs of the target node of task i that can take it
FittingCpus(i) ==
    {cpu_id \in SeqToSet(NodeInventory[tasks_[i].target_node]) :
        LoadBefore(i, tasks_[i].target_node, cpu_id) + TaskUtilization(tasks_[i])
            <= CPU_UTILIZATION_THRESHOLD}

Owners(name, task) ==
    {wl_id \in DOMAIN sched_info_map_ :
        /\ name \in DOMAIN sched_info_map_[wl_id]
        /\ \E i \in DOMAIN sched_info_map_[wl_id][name] :
              sched_info_map_[wl_id][name][i].task_name = task}

\* one NotifyFault request for the node and the task of the DMiss call, for
\* the workload that has the task on the node, or else for the first workload
\* of the plan, or else, if none_id is an id, for that
OneFaultNotified(none_id) ==
    rpc.op = "DMiss" =>
        /\ Len(rpc.faults) = 1
        /\ rpc.faults[1].node_id = rpc.name
        /\ LET owners == Owners(rpc.name, rpc.faults[1].task_name)
           IN IF owners # {} THEN rpc.faults[1].workload_id \in owners
              ELSE IF DOMAIN sched_info_map_ # {}
              THEN rpc.faults[1].workload_id = MapBegin(sched_info_map_)
              ELSE rpc.faults[1].workload_id \in none_id

\* C32, as claimed: a DMiss call makes one NotifyFault attempt, for the
\* workload that has the task on the node in the plan, or for the first
\* workload of the plan when none has
C32_FaultForOwnerOrFirst == OneFaultNotified({})

\* C32, amended: a DMiss call makes one NotifyFault attempt, for the workload
\* that has the task on the node in the plan, for the first workload of the
\* plan when none has, and with an empty workload id when no plan is
\* installed; nothing else changes, whether the attempt succeeds or fails
C32_FaultForOwnerFirstOrNone ==
    /\ []OneFaultNotified({EmptyStr})
    /\ [][rpc'.op = "DMiss" => UNCHANGED <<tasks_, sched_info_map_, sched_info_buf_,
                                          node_sync_map_, hyperperiod_map_>>]_vars

\* a miss of a task the plan has not on that node has been reported for the
\* first workload, and the attempt has failed
C32_Witness ==
    /\ rpc.op = "DMiss"
    /\ rpc.status = -1
    /\ DOMAIN sched_info_map_ # {}
    /\ Owners(rpc.name, rpc.faults[1].task_name) = {}
    /\ rpc.faults[1].workload_id = MapBegin(sched_info_map_)

\* the tasks of the fetched plan that are for node n and were set up
ResolvedTasks(n) ==
    {i \in DOMAIN node[n].sched_info.tasks :
        node[n].sched_info.tasks[i].node_id = n /\ node[n].setup[i] = "TT_SUCCESS"}

\* C33: init_task_list succeeds exactly when one task of the plan that is for
\* this node was set up, and tt_list holds the tasks for this node that were
\* set up, each once, and no other
C33_TaskListOfResolvedOwnTasks ==
    \A n \in ClientNodes :
        node[n].task_list # "none"
        => /\ node[n].task_list = "TT_SUCCESS" <=> ResolvedTasks(n) # {}
           /\ Len(node[n].tt_list) = Cardinality(ResolvedTasks(n))
           /\ SeqToSet(node[n].tt_list)
                 = {node[n].sched_info.tasks[i] : i \in ResolvedTasks(n)}

\* of the two tasks for the node one was not found and the other was set up,
\* as was the task of the other node: the list has the one task
C33_Witness ==
    \E n \in ClientNodes :
        LET tasks == node[n].sched_info.tasks
        IN /\ node[n].task_list = "TT_SUCCESS"
           /\ Len(node[n].tt_list) = 1
           /\ \E i, j, k \in DOMAIN tasks :
                 /\ tasks[i].node_id = n /\ node[n].setup[i] = "not_running"
                 /\ tasks[j].node_id = n /\ node[n].setup[j] = "TT_SUCCESS"
                 /\ tasks[k].node_id # n /\ node[n].setup[k] = "TT_SUCCESS"

\* C34: whenever the barrier map is not empty its keys are the nodes of the
\* first workload of the plan installed now, also after AddSchedInfo has
\* replaced the plan by one that names other nodes
C34_BarrierKeysArePlanNodes ==
    DOMAIN node_sync_map_ # {} => DOMAIN node_sync_map_ = PlanNodes

\* C35: an AddSchedInfo call that fails to schedule its workload (reply
\* status -1) leaves the plan that was installed before installed and as it
\* was
C35_FailedSubmitKeepsPlan ==
    [][(rpc'.op = "AddSchedInfo" /\ rpc'.status = -1)
       => sched_info_map_' = sched_info_map_]_vars

\* the entry the plan has for a task carries what was submitted for it
CarriesSubmitted(entry, task) ==
    /\ entry.sched_policy = task.policy
    /\ entry.sched_priority = task.priority
    /\ entry.period_ns = task.period_us * 1000
    /\ entry.runtime_ns = task.runtime_us * 1000
    /\ entry.deadline_ns = task.deadline_us * 1000
    /\ entry.release_time = task.release_time
    /\ entry.max_dmiss = task.max_dmiss

\* C36: every task entry of the plan carries the scheduling policy, priority,
\* period, runtime, deadline, release offset and allowed deadline misses that
\* were submitted for its task
C36_EntriesCarrySubmittedParameters ==
    \A w \in DOMAIN sched_info_map_ : \A n \in DOMAIN sched_info_map_[w] :
        LET assigned == SelectSeq(tasks_, LAMBDA t : t.assigned_node = n)
            entries == sched_info_map_[w][n]
        IN /\ Len(entries) = Len(assigned)
           /\ \A i \in DOMAIN entries : CarriesSubmitted(entries[i], assigned[i])

\* C37: decoding a payload never puts more bytes into a task name, a node id
\* or a workload id than the array holds, the terminating NUL included,
\* whatever lengths the payload carries
C37_DecodedStringsFit ==
    rpc.op = "SchedInfo"
    => \A str \in DecodedStrings(rpc.buf, rpc.bufsize) : Len(str[1]) + 1 <= str[2]

\* C38: no timer handler sends a signal through the pidfd of a task after
\* teardown has closed it, and the timer of a task does not fire once its
\* pidfd is closed
C38_NoSignalThroughClosedHandle ==
    [][\A t \in RunTasks :
          (send_signal(t) \/ timer_expired(t)) => ctx_runtime.pidfd[t] = "open"]_vars

\* C39: at most one thread at a time is inside a call on the connection of
\* the node: the DMiss calls of the handlers of two tasks whose fires overlap
\* are never in progress together
C39_OneCallOnConnection ==
    Cardinality({t \in RunTasks : ctx_runtime.handler[t].pc = "trpc_client_dmiss"}) <= 1

\* C40: through the retry loop of startup the node has at most one connection
\* open; between attempts and after the last failed attempt it has none, and
\* ctx->comm.dbus is set exactly while one is open
C40_AtMostOneConnection ==
    \A n \in ClientNodes :
        /\ node[n].open_connections = IF node[n].dbus THEN 1 ELSE 0
        /\ node[n].pc \in {"init_trpc", "TT_ERROR_NETWORK"} => node[n].open_connections = 0

\* the last attempt of 300 had its connection made, its fetch failed, and
\* startup has ended with the Network error
C40_Witness ==
    /\ node[N1].pc = "TT_ERROR_NETWORK"
    /\ node[N1].retry_count = TT_MAX_CONNECTION_RETRIES
    /\ node[N1].connected
    /\ node[N1].open_connections = 0

\* C20: no entry of tt_list has its timer deleted and its record freed while
\* a handler invocation for it is executing
C20_NoTeardownMidHandler ==
    \A t \in RunTasks :
        ctx_runtime.freed[t] => ctx_runtime.handler[t].pc = "idle"

====
